---- MODULE Spec2Model ----
(***************************************************************************)
(* Verification model of the Mornin audiobook reader: chapter segmentation *)
(* (lib/chunker.ts), speech normalization (lib/tts-preprocessor.ts), the   *)
(* audio cache and metadata store (lib/library-db.ts) and the library      *)
(* playback engine (components/library/LibraryAudioContext.tsx).           *)
(*                                                                         *)
(* Text is a sequence of tokens.  A token is a fixed string:               *)
(*   sp   " "            nl   "\n"          dot  "."                       *)
(*   I    "I"  (a one-letter word, also the roman numeral)                 *)
(*   K    "Chapter"                         tag  an HTML tag, "<em>"       *)
(*   w n  "ab ab ... ab"   n words separated by single spaces              *)
(*   wd n "ab—ab—...—ab"   n parts joined by em dashes (one word)          *)
(*   wc n "ab, ab, ..., ab" n words separated by comma + space             *)
(* Every regular expression of the source is modelled by what it does on   *)
(* these strings.                                                          *)
(***************************************************************************)
EXTENDS Integers, Sequences, FiniteSets, TLC

VARIABLES
  input,      \* the raw text handed to chunkIntoChapters, as a list of pieces
  chapters,   \* the Chapter[] returned by chunkIntoChapters
  cpc,        \* "input" while the text is assembled, "done" once chunked
  reqChapter, \* index of the chapter of the last POST /api/tts, -1 before any
  reqText,    \* the text field of that request
  response,   \* the server's answer to it
  books,      \* object store "books": the ids of the stored books
  audioCache, \* object store "audioCache": entries {key, blob}, keyPath "key"
  progress,   \* object store "progress": BookProgress records, keyPath "bookId"
  op,         \* the store operation that ran last and its arguments
  ret,        \* the value that operation's promise resolved to
  prevCache,  \* audioCache as it was when that operation started
  written,    \* per (bookId, chapterIndex, voiceId): the blob last set for it
              \* and not covered by a delete since
  isActive, isPlaying, isLoading, currentBookId, currentChapter, voice,
              \* React state of LibraryAudioProvider
  bookRef, isLoadingChapterRef, nextChapterBlobUrlRef, currentBlobUrlRef,
              \* its refs; a blob URL is modelled by the blob it points to
  audio,      \* the HTMLAudioElement: src, paused, currentTime, ended
  loads,      \* the calls of loadAndPlayChapter that are suspended at an await
  prefetches, \* the pre-generation promise chains that are in flight
  retryPlay,  \* a retryPlay listener is registered on visibilitychange
  visibilityState, \* document.visibilityState
  gestures,   \* how many times the user has used a control of the player
  run,        \* history of the current unattended run: engine states, unlocks
  completedBook, \* the book whose progress was saved with completed = true
              \* and that the user has not started again since (else no book)
  preview,    \* LiteraturePlayButton: its state, refs and audio element
  clicks,     \* how many times the user has pressed the preview button
  downloadStatusMap, downloadProgressMap, totalStorageUsed,
              \* React state of LibraryPage, the maps at the book's id
  downloadAbortRef, \* downloadAbortRef.current at the book's id
  download,   \* the call of handleDownload that is suspended at an await
  outcome,    \* per chapter: what the last run of handleDownload left for it
  storageAlert, \* the last press of the download button got the storage alert
  sent,       \* per chapter: the requests the current run has sent for it and
              \* the entries it has written for it
  importState, \* importState of LibraryPage and the books still to synthesize
  pipeline,   \* the batch pipeline that is running: runPipeline of the
              \* download modal, or POST /api/tts-batch on the server
  earlier,    \* the call of handleDownload that was suspended when the call
              \* in download started, and whether it had been cancelled
  loaded,     \* loadBooks of the library page: where it is, and the status
              \* it has computed for the book
  localStorage, \* the device's localStorage: the sentinel and one synced key
  cloud,      \* the snapshot the sync endpoint holds
  restore,    \* restoreIfNeeded: where it is suspended, what it returned
  pageLoads,  \* how many times the app has been loaded
  syncRequests, \* how many GET /api/sync requests the device has sent
  bookmarks,  \* object store "bookmarks": the ids of the stored bookmarks
  debounceTimer, maxWaitTimer, \* the two timers of the scheduler: the seconds
              \* until the timer fires, NotArmed when none is running
  pendingSync, \* pendingSync of the scheduler
  listeners,  \* how many pairs of handlers startSyncListener has registered
  shell,      \* ClientShell's mount effect: where init() is, and whether the
              \* component is mounted
  uploads,    \* the snapshots of the PUT /api/sync requests in flight
  settled,    \* the last request of the sync: whether it succeeded, and how
              \* the promise of the helper that sent it settled
  unpushed,   \* seconds since the first and since the last observed mutation
              \* that no push has followed
  pushCause   \* what called doSync last: "debounce", "maxWait", "hidden"

chunkVars == <<input, chapters, cpc>>

ttsVars == <<reqChapter, reqText, response>>

storeVars == <<books, audioCache, progress, op, ret, prevCache, written>>

playerVars ==
  <<isActive, isPlaying, isLoading, currentBookId, currentChapter, voice,
    bookRef, isLoadingChapterRef, nextChapterBlobUrlRef, currentBlobUrlRef,
    audio, loads, prefetches, retryPlay, visibilityState, gestures, run,
    completedBook, preview, clicks>>

downloadVars ==
  <<downloadStatusMap, downloadProgressMap, totalStorageUsed, downloadAbortRef,
    download, outcome, storageAlert, sent, importState, pipeline, earlier,
    loaded>>

schedulerVars ==
  <<debounceTimer, maxWaitTimer, pendingSync, listeners, unpushed, pushCause>>

syncVars ==
  <<localStorage, cloud, restore, pageLoads, syncRequests, bookmarks,
    schedulerVars, shell, uploads, settled>>

vars == <<chunkVars, ttsVars, storeVars, playerVars, downloadVars, syncVars>>

\* ------------------------------------------------------------------ tokens

Tok(c) == [c |-> c, n |-> 0]

Run(c, n) == [c |-> c, n |-> n]

sp == Tok("sp")

nl == Tok("nl")

dot == Tok("dot")

IsWs(t) == t.c \in {"sp", "nl"}

\* number of single spaces inside the token's string
Spaces(t) == IF t.c \in {"w", "wc"} THEN t.n - 1 ELSE 0

\* number of characters of the token's string
CharLen(t) ==
  CASE t.c = "w" -> 3 * t.n - 1
    [] t.c = "wd" -> 3 * t.n - 1
    [] t.c = "wc" -> 4 * t.n - 2
    [] t.c = "K" -> 7
    [] OTHER -> 1

RECURSIVE SumSpaces(_)
SumSpaces(s) == IF s = << >> THEN 0 ELSE Spaces(Head(s)) + SumSpaces(Tail(s))

\* number of maximal whitespace runs of s
RECURSIVE WsRuns(_, _)
WsRuns(s, inWs) ==
  IF s = << >> THEN 0
  ELSE IF IsWs(Head(s))
       THEN (IF inWs THEN 0 ELSE 1) + WsRuns(Tail(s), TRUE)
       ELSE WsRuns(Tail(s), FALSE)

\* s.split(/\s+/).length
WordCount(s) == 1 + WsRuns(s, FALSE) + SumSpaces(s)

RECURSIVE TrimStart(_)
TrimStart(s) ==
  IF s # << >> /\ IsWs(Head(s)) THEN TrimStart(Tail(s)) ELSE s

RECURSIVE TrimEnd(_)
TrimEnd(s) ==
  IF s # << >> /\ IsWs(s[Len(s)]) THEN TrimEnd(SubSeq(s, 1, Len(s) - 1)) ELSE s

\* s.trim()
Trim(s) == TrimEnd(TrimStart(s))

\* parts.join(sep)
RECURSIVE Join(_, _)
Join(parts, sep) ==
  IF parts = << >> THEN << >>
  ELSE IF Len(parts) = 1 THEN parts[1]
  ELSE parts[1] \o sep \o Join(Tail(parts), sep)

\* index of the first token at or after i that is not whitespace, or Len(s)+1
RECURSIVE SkipWs(_, _)
SkipWs(s, i) ==
  IF i <= Len(s) /\ IsWs(s[i]) THEN SkipWs(s, i + 1) ELSE i

\* index of the first newline at or after i, or Len(s)+1
RECURSIVE NextNl(_, _)
NextNl(s, i) ==
  IF i <= Len(s) /\ s[i] # nl THEN NextNl(s, i + 1) ELSE i

\* the first r characters of s (String.prototype.slice(0, r)); a token cut in
\* the middle becomes the prefix token of its r remaining characters
RECURSIVE TakeChars(_, _)
TakeChars(s, r) ==
  IF s = << >> \/ r <= 0 THEN << >>
  ELSE IF CharLen(Head(s)) <= r
       THEN <<Head(s)>> \o TakeChars(Tail(s), r - CharLen(Head(s)))
       ELSE <<[c |-> "prefix", n |-> r]>>

\* ------------------------------------------------------- lib/chunker.ts

TARGET_WORDS == 450

MIN_WORDS == 150

MAX_CHAPTER_WORDS == 580

SHORT_TEXT_WORDS == 550

MIN_MARKER_WORDS == 20

MIN_PREFACE_WORDS == 50

TITLE_CHARS == 80

Chapter(i, t, x, wc) == [index |-> i, title |-> t, text |-> x, wordCount |-> wc]

TitleFullText == [kind |-> "Full Text", n |-> 0, label |-> << >>]

TitlePreface == [kind |-> "Preface", n |-> 0, label |-> << >>]

\* `Chapter ${n}`
TitleNumbered(k) == [kind |-> "Chapter", n |-> k, label |-> << >>]

TitleMarker(l) == [kind |-> "marker", n |-> 0, label |-> TakeChars(l, TITLE_CHARS)]

\* chapterPattern matches at the newline s[i]:  \n \s* Chapter \s+ I
MarkerAt(s, i) ==
  /\ s[i] = nl
  /\ LET j == SkipWs(s, i + 1)
     IN /\ j <= Len(s)
        /\ s[j].c = "K"
        /\ LET m == SkipWs(s, j + 1)
           IN m > j + 1 /\ m <= Len(s) /\ s[m].c = "I"

\* one past the last token of the match at s[i]: .* runs to the end of the line
MarkerEnd(s, i) == NextNl(s, SkipWs(s, SkipWs(s, i + 1) + 1) + 1)

\* the while loop over chapterPattern.exec(text), scanning from token `from`
RECURSIVE FindMarkers(_, _)
FindMarkers(s, from) ==
  IF from > Len(s) THEN << >>
  ELSE IF MarkerAt(s, from)
       THEN <<[index |-> from,
               label |-> Trim(SubSeq(s, from, MarkerEnd(s, from) - 1))]>>
            \o FindMarkers(s, MarkerEnd(s, from))
       ELSE FindMarkers(s, from + 1)

\* number of newline tokens in s
RECURSIVE CountNl(_)
CountNl(s) ==
  IF s = << >> THEN 0
  ELSE (IF Head(s) = nl THEN 1 ELSE 0) + CountNl(Tail(s))

\* index of the last newline before e, searching down from e - 1
RECURSIVE LastNl(_, _)
LastNl(s, e) == IF s[e - 1] = nl THEN e - 1 ELSE LastNl(s, e - 1)

\* text.split(/\n\s*\n/): cut at every whitespace run holding two newlines,
\* from its first newline to its last
RECURSIVE SplitParagraphs(_, _, _)
SplitParagraphs(s, i, cur) ==
  IF i > Len(s) THEN <<cur>>
  ELSE IF IsWs(s[i])
       THEN LET e == SkipWs(s, i)
                wsRun == SubSeq(s, i, e - 1)
            IN IF CountNl(wsRun) >= 2
               THEN <<cur \o SubSeq(s, i, NextNl(s, i) - 1)>>
                    \o SplitParagraphs(s, e, SubSeq(s, LastNl(s, e) + 1, e - 1))
               ELSE SplitParagraphs(s, e, cur \o wsRun)
       ELSE SplitParagraphs(s, i + 1, Append(cur, s[i]))

\* .map((p) => p.trim()).filter((p) => p.length > 0)
RECURSIVE TrimAndFilter(_)
TrimAndFilter(ps) ==
  IF ps = << >> THEN << >>
  ELSE IF Trim(Head(ps)) = << >> THEN TrimAndFilter(Tail(ps))
       ELSE <<Trim(Head(ps))>> \o TrimAndFilter(Tail(ps))

Paragraphs(s) == TrimAndFilter(SplitParagraphs(s, 1, << >>))

\* text.split(/(?<=[.!?])\s+/): cut at every whitespace run that follows a
\* sentence terminator; a trailing empty piece is kept
RECURSIVE SplitSentences(_, _, _)
SplitSentences(s, i, cur) ==
  IF i > Len(s) THEN <<cur>>
  ELSE IF s[i] = dot /\ i + 1 <= Len(s) /\ IsWs(s[i + 1])
       THEN <<Append(cur, s[i])>> \o SplitSentences(s, SkipWs(s, i + 1), << >>)
       ELSE SplitSentences(s, i + 1, Append(cur, s[i]))

Sentences(s) == SplitSentences(s, 1, << >>)

\* FlushRemaining with the undersized tail dropped instead of merged
FlushRemaining_DropTail(sep, result, cur, curWords) ==
  IF cur = << >> THEN result
  ELSE IF curWords < MIN_WORDS /\ Len(result) > 0
       THEN result
       ELSE Append(result, Chapter(Len(result), TitleNumbered(Len(result) + 1),
                                   Join(cur, sep), curWords))

\* the flush after a greedy loop: an undersized tail is merged into the last
\* chapter of result, anything else becomes a new chapter
FlushRemaining(sep, result, cur, curWords) ==
  IF cur = << >> THEN result
  ELSE IF curWords < MIN_WORDS /\ Len(result) > 0
       THEN [result EXCEPT
               ![Len(result)].text = @ \o sep \o Join(cur, sep),
               ![Len(result)].wordCount = @ + curWords]
       ELSE Append(result, Chapter(Len(result), TitleNumbered(Len(result) + 1),
                                   Join(cur, sep), curWords))

\* the greedy accumulation loop: close the current chapter when the next item
\* would pass TARGET_WORDS and the chapter already has MIN_WORDS
RECURSIVE GreedySplit(_, _, _, _, _)
GreedySplit(items, sep, result, cur, curWords) ==
  IF items = << >> THEN FlushRemaining(sep, result, cur, curWords)
  ELSE LET item == Head(items)
           itemWords == WordCount(item)
       IN IF curWords + itemWords > TARGET_WORDS /\ curWords >= MIN_WORDS
          THEN GreedySplit(Tail(items), sep,
                           Append(result,
                                  Chapter(Len(result), TitleNumbered(Len(result) + 1),
                                          Join(cur, sep), curWords)),
                           <<item>>, itemWords)
          ELSE GreedySplit(Tail(items), sep, result,
                           Append(cur, item), curWords + itemWords)

\* EnforceChapter with a chapter under the cap pushed as it is ({ ...ch })
EnforceChapter_KeepIndex(result, ch) ==
  IF ch.wordCount <= MAX_CHAPTER_WORDS
  THEN Append(result, ch)
  ELSE GreedySplit(Sentences(ch.text), <<sp>>, result, << >>, 0)

\* one iteration of the for loop of enforceMaxChapterSize
EnforceChapter(result, ch) ==
  IF ch.wordCount <= MAX_CHAPTER_WORDS
  THEN Append(result, [ch EXCEPT !.index = Len(result)])
  ELSE GreedySplit(Sentences(ch.text), <<sp>>, result, << >>, 0)

RECURSIVE EnforceFrom(_, _)
EnforceFrom(result, chs) ==
  IF chs = << >> THEN result
  ELSE EnforceFrom(EnforceChapter(result, Head(chs)), Tail(chs))

enforceMaxChapterSize(chs) == EnforceFrom(<< >>, chs)

\* the for loop over markers: one chapter per marker section over the floor
RECURSIVE MarkerSections(_, _, _, _)
MarkerSections(s, markers, i, acc) ==
  IF i > Len(markers) THEN acc
  ELSE LET start == markers[i].index
           end == IF i + 1 <= Len(markers) THEN markers[i + 1].index ELSE Len(s) + 1
           chapterText == Trim(SubSeq(s, start, end - 1))
           wordCount == WordCount(chapterText)
       IN MarkerSections(s, markers, i + 1,
            IF wordCount > MIN_MARKER_WORDS
            THEN Append(acc, Chapter(Len(acc), TitleMarker(markers[i].label),
                                     chapterText, wordCount))
            ELSE acc)

\* chapters.unshift(preface) followed by the re-index loop
WithPreface(s, markers, chs) ==
  LET preface == Trim(SubSeq(s, 1, markers[1].index - 1))
      prefaceWords == WordCount(preface)
  IN IF markers[1].index > 1 /\ prefaceWords > MIN_PREFACE_WORDS
     THEN <<Chapter(0, TitlePreface, preface, prefaceWords)>>
          \o [k \in 1..Len(chs) |-> [chs[k] EXCEPT !.index = k]]
     ELSE chs

MarkerChapters(s) ==
  LET markers == FindMarkers(s, 1)
  IN IF Len(markers) >= 2
     THEN WithPreface(s, markers, MarkerSections(s, markers, 1, << >>))
     ELSE << >>

ParagraphChapters(s) ==
  IF Len(Paragraphs(s)) >= 2
  THEN GreedySplit(Paragraphs(s), <<nl, nl>>, << >>, << >>, 0)
  ELSE << >>

SentenceChapters(s) == GreedySplit(Sentences(s), <<sp>>, << >>, << >>, 0)

\* which return statement of chunkIntoChapters the text takes
ChunkPath(s) ==
  IF WordCount(s) <= SHORT_TEXT_WORDS THEN "short"
  ELSE IF Len(MarkerChapters(s)) >= 2 THEN "marker"
  ELSE IF Len(ParagraphChapters(s)) >= 2 THEN "paragraph"
  ELSE "sentence"

\* the chapter list handed to enforceMaxChapterSize
PreChapters(s) ==
  CASE ChunkPath(s) = "marker" -> MarkerChapters(s)
    [] ChunkPath(s) = "paragraph" -> ParagraphChapters(s)
    [] ChunkPath(s) = "sentence" -> SentenceChapters(s)
    [] OTHER -> << >>

chunkIntoChapters(s) ==
  IF ChunkPath(s) = "short"
  THEN <<Chapter(0, TitleFullText, s, WordCount(s))>>
  ELSE enforceMaxChapterSize(PreChapters(s))

\* ------------------------------------------------ lib/tts-preprocessor.ts

\* t.replace(/<\/?[^>]+(>|$)/g, ""): tags go, their inner text stays
stripFormattingArtifacts(s) == SelectSeq(s, LAMBDA t : t.c # "tag")

\* t.replace(/[—–]/g, ", "): a dash-joined run becomes a comma-separated one
DashesToCommas(s) ==
  [k \in 1..Len(s) |-> IF s[k].c = "wd" THEN Run("wc", s[k].n) ELSE s[k]]

\* t.replace(/ {2,}/g, " ")
RECURSIVE CollapseSpaces(_)
CollapseSpaces(s) ==
  IF s = << >> THEN << >>
  ELSE IF Len(s) >= 2 /\ s[1] = sp /\ s[2] = sp THEN CollapseSpaces(Tail(s))
  ELSE <<Head(s)>> \o CollapseSpaces(Tail(s))

transliterateForTTS(s) == CollapseSpaces(DashesToCommas(s))

cleanSpecialCharacters(s) == CollapseSpaces(DashesToCommas(s))

\* t.replace(/^[ \t]+/gm, ""): spaces at the start of a line go
RECURSIVE RemoveIndent(_, _)
RemoveIndent(s, atLineStart) ==
  IF s = << >> THEN << >>
  ELSE IF atLineStart /\ Head(s) = sp THEN RemoveIndent(Tail(s), TRUE)
  ELSE <<Head(s)>> \o RemoveIndent(Tail(s), Head(s) = nl)

\* t.replace(/\n{4,}/g, "\n\n\n")
RECURSIVE CollapseBlankLines(_)
CollapseBlankLines(s) ==
  IF s = << >> THEN << >>
  ELSE IF Len(s) >= 4 /\ s[1] = nl /\ s[2] = nl /\ s[3] = nl /\ s[4] = nl
       THEN CollapseBlankLines(Tail(s))
       ELSE <<Head(s)>> \o CollapseBlankLines(Tail(s))

\* t.replace(/([^\n])\n([^\n])/g, "$1. $2"), scanning from token i.  A match
\* consumes the character after the newline, so when that character is a whole
\* one-character token (consumed) it cannot open the next match.
RECURSIVE LineBreaksToPauses(_, _, _)
LineBreaksToPauses(s, i, consumed) ==
  IF i > Len(s) THEN << >>
  ELSE IF /\ s[i] = nl
          /\ i > 1 /\ s[i - 1] # nl /\ ~consumed
          /\ i < Len(s) /\ s[i + 1] # nl
       THEN <<dot, sp, s[i + 1]>>
            \o LineBreaksToPauses(s, i + 2, CharLen(s[i + 1]) = 1)
       ELSE <<s[i]>> \o LineBreaksToPauses(s, i + 1, FALSE)

\* t.replace(/([.!?])\.\s/g, "$1 ")
RECURSIVE DropAddedPeriod(_)
DropAddedPeriod(s) ==
  IF s = << >> THEN << >>
  ELSE IF Len(s) >= 3 /\ s[1] = dot /\ s[2] = dot /\ IsWs(s[3])
       THEN <<dot, sp>> \o DropAddedPeriod(SubSeq(s, 4, Len(s)))
       ELSE <<Head(s)>> \o DropAddedPeriod(Tail(s))

\* length of the run of full stops that starts s
RECURSIVE DotRun(_)
DotRun(s) == IF s # << >> /\ Head(s) = dot THEN 1 + DotRun(Tail(s)) ELSE 0

\* t.replace(/\.{2,}/g, "...")
RECURSIVE NormalizeEllipsis(_)
NormalizeEllipsis(s) ==
  IF s = << >> THEN << >>
  ELSE IF DotRun(s) >= 2
       THEN <<dot, dot, dot>> \o NormalizeEllipsis(SubSeq(s, DotRun(s) + 1, Len(s)))
       ELSE <<Head(s)>> \o NormalizeEllipsis(Tail(s))

cleanPoetryFormatting(s) ==
  NormalizeEllipsis(
    DropAddedPeriod(
      LineBreaksToPauses(CollapseBlankLines(RemoveIndent(s, TRUE)), 1, FALSE)))

preprocessForTTS(s) ==
  Trim(CollapseSpaces(
    cleanPoetryFormatting(
      cleanSpecialCharacters(
        transliterateForTTS(
          stripFormattingArtifacts(s))))))

\* ------------------------------------------------------ app/api/tts/route.ts

MAX_WORDS == 600

\* the checks of POST that precede synthesis; "" when the request is accepted
Rejection(t) ==
  IF t = << >> THEN "Text is required"
  ELSE IF WordCount(t) > MAX_WORDS THEN "Text too long"
  ELSE ""

\* the answers POST can give to a request carrying text t
Responses(t) ==
  IF Rejection(t) # "" THEN {Rejection(t)} ELSE {"audio", "TTS synthesis failed"}

\* ------------------------------------------------------- lib/library-db.ts

\* strings of the store are sequences of characters
Dash == <<"-">>

\* s.startsWith(prefix)
StartsWith(s, prefix) ==
  Len(s) >= Len(prefix) /\ SubSeq(s, 1, Len(prefix)) = prefix

\* `${n}` for a non-negative integer n
RECURSIVE Decimal(_)
Decimal(n) ==
  LET digit == <<"0", "1", "2", "3", "4", "5", "6", "7", "8", "9">>
  IN IF n < 10 THEN <<digit[n + 1]>>
     ELSE Decimal(n \div 10) \o <<digit[(n % 10) + 1]>>

\* an omitted voiceId
NoVoice == << >>

\* the key format of the first store version: the voice is not part of the key
audioCacheKey_NoVoice(bookId, chapterIndex, voiceId) ==
  bookId \o Dash \o Decimal(chapterIndex)

audioCacheKey(bookId, chapterIndex, voiceId) ==
  IF voiceId # NoVoice
  THEN bookId \o Dash \o Decimal(chapterIndex) \o Dash \o voiceId
  ELSE bookId \o Dash \o Decimal(chapterIndex)

DOWNLOAD_VOICE_ID == <<"S">>

\* a blob: its bytes and its size
Blob(data, size) == [data |-> data, size |-> size]

\* null / undefined
NoBlob == Blob(<< >>, 0)

\* db.put on a store whose keyPath is "key": the entry replaces the one that
\* has its key
PutEntry(store, key, blob) ==
  {e \in store : e.key # key} \cup {[key |-> key, blob |-> blob]}

\* db.get("audioCache", key), then entry?.blob ?? null
getCachedAudio(store, key) ==
  IF \E e \in store : e.key = key
  THEN (CHOOSE e \in store : e.key = key).blob
  ELSE NoBlob

RECURSIVE SumSizes(_)
SumSizes(entries) ==
  IF entries = {} THEN 0
  ELSE LET e == CHOOSE x \in entries : TRUE
       IN e.blob.size + SumSizes(entries \ {e})

\* the cursor walk of getTotalAudioCacheSize
getTotalAudioCacheSize(store) == SumSizes(store)

\* the entries a per-book operation selects: key.startsWith(`${id}-`)
BookEntries(store, id) == {e \in store : StartsWith(e.key, id \o Dash)}

getBookAudioCacheSize(store, bookId) == SumSizes(BookEntries(store, bookId))

\* a cascade that removes only the entries of the download voice
DeleteEntries_DownloadVoiceOnly(store, id) ==
  {e \in store :
     \A i \in 0..9 : e.key # audioCacheKey(id, i, DOWNLOAD_VOICE_ID)}

\* the audioCache transaction of deleteBook and of deleteBookAudioCache
DeleteEntries(store, id) == store \ BookEntries(store, id)

\* db.put("progress", p), keyPath "bookId"
PutProgress(store, p) == {q \in store : q.bookId # p.bookId} \cup {p}

BookProgress(id, chapter, time, done) ==
  [bookId |-> id, currentChapter |-> chapter,
   currentTime |-> time, completed |-> done]

\* what a promise of the store resolves to
Void == [kind |-> "void", n |-> 0, blob |-> NoBlob]

Bytes(n) == [kind |-> "bytes", n |-> n, blob |-> NoBlob]

BlobOrNull(b) ==
  IF b = NoBlob THEN [kind |-> "null", n |-> 0, blob |-> NoBlob]
  ELSE [kind |-> "blob", n |-> 0, blob |-> b]

Op(name, id, key) == [name |-> name, id |-> id, key |-> key]

InitStore ==
  /\ books = {}
  /\ audioCache = {}
  /\ progress = {}
  /\ op = Op("none", << >>, << >>)
  /\ ret = Void
  /\ prevCache = {}
  /\ written = {}

\* ------------------------- components/library/LibraryAudioContext.tsx: engine

MaxGestures == 2

ChapterTicks == 2

\* null for a chapter index, a book id
NoChapter == 0 - 1

NoBook == << >>

\* the book handed to playChapter: three chapters, given by their text
\* "ab—ab", "ab ab\nab" and "<em>ab ab ab"
Book ==
  [id |-> <<"b">>,
   chapters |-> << <<Run("wd", 2)>>,
                   <<Run("w", 2), nl, Run("w", 1)>>,
                   <<Tok("tag"), Run("w", 3)>> >>]

NumChapters == Len(Book.chapters)

\* the audio POST /api/tts returns for a chapter's text in a voice
Synth(chapterIndex, voiceId) ==
  Blob(Decimal(chapterIndex) \o voiceId, 1 + chapterIndex)

SILENT_MP3 == Blob(<<"silent">>, 0)

\* audio.src = url: the element is reset and paused, without a pause event
SetSrc(url) == [src |-> url, paused |-> TRUE, currentTime |-> 0, ended |-> FALSE]

\* audio.play() when it is allowed: fires "play"
Play(a) ==
  IF a.ended
  THEN [a EXCEPT !.paused = FALSE, !.ended = FALSE, !.currentTime = 0]
  ELSE [a EXCEPT !.paused = FALSE]

\* playback reached the end of the media: "pause", then "ended"
AtEnd(a) == [a EXCEPT !.paused = TRUE, !.ended = TRUE]

IsChapterAudio(a) == a.src # NoBlob /\ a.src # SILENT_MP3

\* whether audio.play() resolves; in the background the OS may refuse a play
\* that no user gesture started
PlayOutcomes(isAutoAdvance) ==
  IF isAutoAdvance /\ visibilityState = "hidden" THEN {TRUE, FALSE} ELSE {TRUE}

\* no request body
NoRequest == [text |-> << >>, voice |-> NoVoice]

\* the chapter text is sent as it is stored
fetchAudio_Raw(text, voiceId) == [text |-> text, voice |-> voiceId]

\* fetchAudio(text, voiceId): the body of its POST /api/tts
fetchAudio(text, voiceId) == [text |-> preprocessForTTS(text), voice |-> voiceId]

\* a suspended loadAndPlayChapter(book, chapter, auto): where it waits, the
\* voice.id its closure holds, and whether its audio.play() was allowed
Load(pc, chapter, auto, ok) ==
  [pc |-> pc, chapter |-> chapter, auto |-> auto, ok |-> ok, voice |-> voice,
   req |-> NoRequest]

Prefetch(pc, chapter) == [pc |-> pc, chapter |-> chapter, voice |-> voice]

Completed(prog) == \E q \in prog : q.bookId = Book.id /\ q.completed

\* the state the player shows
EngineStateOf(active, loading, playing, prog) ==
  IF ~active THEN "Idle"
  ELSE IF loading THEN "Loading"
  ELSE IF playing THEN "Playing"
  ELSE IF Completed(prog) THEN "Completed"
  ELSE "Paused"

EngineState == EngineStateOf(isActive, isLoading, isPlaying, progress)

\* no unattended run is being followed
NoRun == [clean |-> FALSE, unlocks |-> 0, log |-> << >>]

\* nothing of an earlier session is left: idle, silent, nothing in flight
Pristine ==
  /\ ~isActive /\ ~isPlaying /\ ~isLoading /\ ~isLoadingChapterRef
  /\ loads = {} /\ prefetches = {} /\ ~retryPlay
  /\ audio.paused /\ nextChapterBlobUrlRef = NoBlob

Unlocked(r) == IF r.clean THEN [r EXCEPT !.unlocks = @ + 1] ELSE r

\* components/LiteraturePlayButton.tsx before the first press: no Audio
\* element yet, nothing in sampleCache
NoPreview ==
  [loading |-> FALSE, playing |-> FALSE, loaded |-> FALSE, cached |-> FALSE,
   hasAudio |-> FALSE, src |-> FALSE, paused |-> TRUE, currentTime |-> 0]

\* the preview's listener for "library-audio-play"
OnLibraryAudioPlay(pv) ==
  IF pv.hasAudio THEN [pv EXCEPT !.paused = TRUE, !.playing = FALSE] ELSE pv

InitPlayer ==
  /\ isActive = FALSE
  /\ isPlaying = FALSE
  /\ isLoading = FALSE
  /\ currentBookId = NoBook
  /\ currentChapter = NoChapter
  /\ voice = DOWNLOAD_VOICE_ID
  /\ bookRef = NoBook
  /\ isLoadingChapterRef = FALSE
  /\ nextChapterBlobUrlRef = NoBlob
  /\ currentBlobUrlRef = NoBlob
  /\ audio = SetSrc(NoBlob)
  /\ loads = {}
  /\ prefetches = {}
  /\ retryPlay = FALSE
  /\ visibilityState = "visible"
  /\ gestures = 0
  /\ run = NoRun
  /\ completedBook = NoBook
  /\ preview = NoPreview
  /\ clicks = 0

\* what follows a handler: the render, the pre-generation effect if isPlaying or
\* currentChapter changed, and the run history.  ref2, pf2, run2 are the
\* pre-buffered URL, the chains in flight and the history the handler left.
Effects(ref2, pf2, run2) ==
  /\ IF /\ isPlaying' /\ currentChapter' # NoChapter /\ bookRef' # NoBook
        /\ <<isPlaying', currentChapter'>> # <<isPlaying, currentChapter>>
     THEN /\ nextChapterBlobUrlRef' = NoBlob
          /\ prefetches' =
               IF currentChapter' + 1 >= NumChapters THEN pf2
               ELSE pf2 \cup {Prefetch("cache", currentChapter' + 1)}
     ELSE /\ nextChapterBlobUrlRef' = ref2
          /\ prefetches' = pf2
  /\ run' =
       IF ~run2.clean THEN NoRun
       ELSE LET st == EngineStateOf(isActive', isLoading', isPlaying', progress')
            IN IF run2.log # << >> /\ run2.log[Len(run2.log)] = st THEN run2
               ELSE [run2 EXCEPT !.log = Append(@, st)]

\* the render after an engine handler: the effect on isPlaying dispatches
\* "library-audio-play" when isPlaying became true; dispatched tells that the
\* handler dispatched it itself
RenderDispatch(ref2, pf2, run2, dispatched) ==
  /\ clicks' = clicks
  /\ preview' =
       IF dispatched \/ (isPlaying' /\ ~isPlaying)
       THEN OnLibraryAudioPlay(preview)
       ELSE preview
  /\ Effects(ref2, pf2, run2)

Render(ref2, pf2, run2) == RenderDispatch(ref2, pf2, run2, FALSE)

\* the player's variables a handler that only touches the element leaves alone
engineFrame ==
  <<isActive, isLoading, currentBookId, currentChapter, voice, bookRef,
    isLoadingChapterRef, currentBlobUrlRef, loads, retryPlay>>

\* a load or a pre-generation chain waits for the local database or for the
\* element, not for the network, or the silent clip (two MP3 frames) is
\* playing: this ends within milliseconds, before the user acts again, a
\* timer fires or playback advances
Busy ==
  \/ \E t \in loads : t.pc # "fetch"
  \/ \E p \in prefetches : p.pc # "fetch"
  \/ audio.src = SILENT_MP3 /\ ~audio.paused

\* a handler the user started
Gesture == ~Busy /\ gestures < MaxGestures /\ gestures' = gestures + 1

\* the silent clip is played on every load
UsesUnlock_Always(isAutoAdvance) == TRUE

\* if (!isAutoAdvance) { audio.src = SILENT_MP3; await audio.play() }
UsesUnlock(isAutoAdvance) == ~isAutoAdvance

\* loadAndPlayChapter(book, k, auto) up to its first await.  a0 and playing0
\* are the element and isPlaying as the caller left them, run0 the history.
StartLoad(k, auto, a0, playing0, run0) ==
  /\ isLoadingChapterRef' = TRUE
  /\ isLoading' = TRUE
  /\ currentBookId' = Book.id
  /\ currentChapter' = k
  /\ isActive' = TRUE
  /\ bookRef' = Book.id
  /\ completedBook' = IF auto THEN completedBook ELSE NoBook
  /\ UNCHANGED <<voice, retryPlay, visibilityState, storeVars>>
  /\ IF UsesUnlock(auto)
     THEN /\ audio' = Play(SetSrc(SILENT_MP3))
          /\ isPlaying' = TRUE
          /\ currentBlobUrlRef' = NoBlob
          /\ loads' = loads \cup {Load("cache", k, auto, TRUE)}
          /\ Render(nextChapterBlobUrlRef, prefetches, Unlocked(run0))
     ELSE IF nextChapterBlobUrlRef # NoBlob /\ auto
     THEN \E ok \in PlayOutcomes(auto) :
            /\ currentBlobUrlRef' = nextChapterBlobUrlRef
            /\ audio' = IF ok THEN Play(SetSrc(nextChapterBlobUrlRef))
                        ELSE SetSrc(nextChapterBlobUrlRef)
            /\ isPlaying' = (playing0 \/ ok)
            /\ loads' = loads \cup {Load("play", k, auto, ok)}
            /\ Render(NoBlob, prefetches, IF ok THEN run0 ELSE NoRun)
     ELSE /\ currentBlobUrlRef' = NoBlob
          /\ audio' = a0
          /\ isPlaying' = playing0
          /\ loads' = loads \cup {Load("cache", k, auto, TRUE)}
          /\ Render(nextChapterBlobUrlRef, prefetches, run0)

\* playChapter(book, k) from a book card or the chapter list
PlayChapter ==
  \E k \in 0..NumChapters :
    /\ visibilityState = "visible"
    /\ Gesture
    /\ UNCHANGED <<chunkVars, ttsVars, downloadVars, syncVars>>
    /\ IF k >= NumChapters
       THEN UNCHANGED <<storeVars, engineFrame, isPlaying, audio,
                        nextChapterBlobUrlRef, prefetches, visibilityState,
                        run, completedBook, preview, clicks>>
       ELSE StartLoad(k, FALSE, audio, isPlaying,
                      IF Pristine /\ k = 0
                      THEN [clean |-> TRUE, unlocks |-> 0, log |-> <<"Idle">>]
                      ELSE NoRun)

\* progress?.currentChapter ?? 0 of the book's card: the chapter of the saved
\* progress record, 0 when the book has none
CardChapter(store) ==
  IF \E q \in store : q.bookId = Book.id
  THEN (CHOOSE q \in store : q.bookId = Book.id).currentChapter
  ELSE 0

\* the cover button of BookCard: onPlayChapter(book.id, progress?.currentChapter
\* ?? 0), which is handlePlayChapter of the library page and playChapter
BookCardPlay ==
  LET k == CardChapter(progress)
  IN /\ visibilityState = "visible"
     /\ Gesture
     /\ UNCHANGED <<chunkVars, ttsVars, downloadVars, syncVars>>
     /\ IF k >= NumChapters
        THEN UNCHANGED <<storeVars, engineFrame, isPlaying, audio,
                         nextChapterBlobUrlRef, prefetches, visibilityState,
                         run, completedBook, preview, clicks>>
        ELSE StartLoad(k, FALSE, audio, isPlaying,
                       IF Pristine /\ k = 0
                       THEN [clean |-> TRUE, unlocks |-> 0, log |-> <<"Idle">>]
                       ELSE NoRun)

\* the saved position is restored on every load
RestoresPosition_Always(isAutoAdvance) == TRUE

\* if (!isAutoAdvance) { const savedProg = await getProgress(book.id); ... }
RestoresPosition(isAutoAdvance) == ~isAutoAdvance

\* currentBlobUrlRef.current = url; audio.src = url; then, for a manual play,
\* await getProgress, and for an auto-advance, audio.play()
SrcSet(t, blob) ==
  /\ currentBlobUrlRef' = blob
  /\ UNCHANGED <<isActive, isLoading, currentBookId, currentChapter, voice,
                 bookRef, isLoadingChapterRef, retryPlay, visibilityState,
                 gestures>>
  /\ IF RestoresPosition(t.auto)
     THEN /\ audio' = SetSrc(blob)
          /\ isPlaying' = isPlaying
          /\ loads' = (loads \ {t}) \cup {[t EXCEPT !.pc = "progress"]}
          /\ Render(nextChapterBlobUrlRef, prefetches, run)
     ELSE \E ok \in PlayOutcomes(t.auto) :
            /\ audio' = IF ok THEN Play(SetSrc(blob)) ELSE SetSrc(blob)
            /\ isPlaying' = (isPlaying \/ ok)
            /\ loads' = (loads \ {t}) \cup {[t EXCEPT !.pc = "play", !.ok = ok]}
            /\ Render(nextChapterBlobUrlRef, prefetches,
                      IF ok THEN run ELSE NoRun)

\* catch (registers retryPlay after a failed auto-advance) and finally
Settle(t, failed) ==
  /\ retryPlay' = (retryPlay \/ (failed /\ t.auto))
  /\ isLoadingChapterRef' = FALSE
  /\ isLoading' = FALSE
  /\ loads' = loads \ {t}
  /\ UNCHANGED <<isActive, isPlaying, currentBookId, currentChapter, voice,
                 bookRef, currentBlobUrlRef, audio, visibilityState, gestures>>
  /\ RenderDispatch(nextChapterBlobUrlRef, prefetches,
                    IF failed THEN NoRun ELSE run, ~failed)

\* after the unlock and getCachedAudio(cacheKey): a hit is used, a miss is
\* sent to fetchAudio
LoadCached ==
  \E t \in loads :
    /\ t.pc = "cache"
    /\ UNCHANGED completedBook
    /\ UNCHANGED <<chunkVars, ttsVars, downloadVars, syncVars, storeVars>>
    /\ LET blob == getCachedAudio(audioCache,
                                  audioCacheKey(Book.id, t.chapter, t.voice))
       IN IF blob # NoBlob
          THEN SrcSet(t, blob)
          ELSE /\ loads' =
                    (loads \ {t}) \cup
                    {[t EXCEPT !.pc = "fetch",
                               !.req = fetchAudio(Book.chapters[t.chapter + 1],
                                                  t.voice)]}
               /\ UNCHANGED <<isActive, isPlaying, isLoading, currentBookId,
                              currentChapter, voice, bookRef,
                              isLoadingChapterRef, nextChapterBlobUrlRef,
                              currentBlobUrlRef, audio, prefetches, retryPlay,
                              visibilityState, gestures, run, preview,
                              clicks>>

\* fetchAudio answered: the blob is stored with setCachedAudio and used, or
\* the request failed and the load is abandoned
LoadFetched ==
  \E t \in loads, ok \in BOOLEAN :
    /\ t.pc = "fetch"
    /\ UNCHANGED completedBook
    /\ UNCHANGED <<chunkVars, ttsVars, downloadVars, syncVars, books, progress, op, ret, prevCache,
                   written>>
    /\ IF ok
       THEN /\ audioCache' =
                 PutEntry(audioCache,
                          audioCacheKey(Book.id, t.chapter, t.voice),
                          Synth(t.chapter, t.voice))
            /\ SrcSet(t, Synth(t.chapter, t.voice))
       ELSE /\ audioCache' = audioCache
            /\ Settle(t, TRUE)

\* getProgress(book.id) answered: the saved position is restored when it is in
\* this chapter, then audio.play()
LoadProgress ==
  \E t \in loads :
    /\ t.pc = "progress"
    /\ UNCHANGED completedBook
    /\ UNCHANGED <<chunkVars, ttsVars, downloadVars, syncVars, storeVars>>
    /\ LET saved == {q \in progress : /\ q.bookId = Book.id
                                      /\ q.currentChapter = t.chapter
                                      /\ q.currentTime > 0}
           a1 == IF saved # {}
                 THEN [audio EXCEPT
                         !.currentTime = (CHOOSE q \in saved : TRUE).currentTime]
                 ELSE audio
       IN \E ok \in PlayOutcomes(t.auto) :
            /\ audio' = IF ok THEN Play(a1) ELSE a1
            /\ isPlaying' = (isPlaying \/ ok)
            /\ loads' = (loads \ {t}) \cup {[t EXCEPT !.pc = "play", !.ok = ok]}
            /\ UNCHANGED <<isActive, isLoading, currentBookId, currentChapter,
                           voice, bookRef, isLoadingChapterRef,
                           currentBlobUrlRef, retryPlay, visibilityState,
                           gestures>>
            /\ Render(nextChapterBlobUrlRef, prefetches,
                      IF ok THEN run ELSE NoRun)

\* audio.play() settled, updateBookLastPlayed, the catch and the finally
LoadSettled ==
  \E t \in loads :
    /\ t.pc = "play"
    /\ UNCHANGED completedBook
    /\ UNCHANGED <<chunkVars, ttsVars, downloadVars, syncVars, storeVars>>
    /\ Settle(t, ~t.ok)

\* getCachedAudio(cacheKey).then of the pre-generation effect: a hit becomes
\* the pre-buffered URL, a miss is requested from /api/tts
PrefetchCached ==
  \E p \in prefetches :
    /\ p.pc = "cache"
    /\ UNCHANGED completedBook
    /\ LET blob == getCachedAudio(audioCache,
                                  audioCacheKey(Book.id, p.chapter, p.voice))
       IN IF blob # NoBlob
          THEN /\ nextChapterBlobUrlRef' = blob
               /\ prefetches' = prefetches \ {p}
          ELSE /\ nextChapterBlobUrlRef' = nextChapterBlobUrlRef
               /\ prefetches' = (prefetches \ {p}) \cup {[p EXCEPT !.pc = "fetch"]}
    /\ UNCHANGED <<chunkVars, ttsVars, downloadVars, syncVars, storeVars, engineFrame, isPlaying,
                   audio, visibilityState, gestures, run, preview, clicks>>

\* the pre-generation request answered: res.ok stores the blob and makes it
\* the pre-buffered URL, anything else is dropped
PrefetchFetched ==
  \E p \in prefetches, ok \in BOOLEAN :
    /\ p.pc = "fetch"
    /\ UNCHANGED completedBook
    /\ prefetches' = prefetches \ {p}
    /\ IF ok
       THEN /\ audioCache' =
                 PutEntry(audioCache,
                          audioCacheKey(Book.id, p.chapter, p.voice),
                          Synth(p.chapter, p.voice))
            /\ nextChapterBlobUrlRef' = Synth(p.chapter, p.voice)
            /\ run' = run
       ELSE /\ UNCHANGED <<audioCache, nextChapterBlobUrlRef>>
            /\ run' = NoRun
    /\ UNCHANGED <<chunkVars, ttsVars, downloadVars, syncVars, books, progress, op, ret, prevCache,
                   written, engineFrame, isPlaying, audio, visibilityState,
                   gestures, preview, clicks>>

\* handleChapterEnd, after the "pause" event that precedes "ended"; a1 is the
\* element at the end of its media
handleChapterEnd(a1) ==
  IF isLoadingChapterRef \/ bookRef = NoBook \/ currentChapter = NoChapter
  THEN /\ audio' = a1
       /\ isPlaying' = FALSE
       /\ UNCHANGED <<storeVars, engineFrame, visibilityState, completedBook>>
       /\ Render(nextChapterBlobUrlRef, prefetches, run)
  ELSE IF currentChapter + 1 < NumChapters
  THEN StartLoad(currentChapter + 1, TRUE, a1, FALSE, run)
  ELSE /\ progress' =
            PutProgress(progress, BookProgress(bookRef, NumChapters, 0, TRUE))
       /\ completedBook' = bookRef
       /\ audio' = a1
       /\ isPlaying' = FALSE
       /\ UNCHANGED <<books, audioCache, op, ret, prevCache, written,
                      engineFrame, visibilityState>>
       /\ Render(nextChapterBlobUrlRef, prefetches, run)

\* five seconds of playback
Tick ==
  /\ IsChapterAudio(audio) /\ ~audio.paused
  /\ UNCHANGED completedBook
  /\ ~Busy
  /\ audio.currentTime < ChapterTicks - 1
  /\ audio' = [audio EXCEPT !.currentTime = @ + 1]
  /\ UNCHANGED <<chunkVars, ttsVars, downloadVars, syncVars, storeVars, engineFrame, isPlaying,
                 nextChapterBlobUrlRef, prefetches, visibilityState, gestures,
                 run, preview, clicks>>

\* the chapter's audio plays to its end: "pause", "ended"
ChapterEnded ==
  /\ IsChapterAudio(audio) /\ ~audio.paused
  /\ ~Busy
  /\ audio.currentTime >= ChapterTicks - 1
  /\ UNCHANGED <<chunkVars, ttsVars, downloadVars, syncVars, gestures>>
  /\ handleChapterEnd(AtEnd([audio EXCEPT !.currentTime = ChapterTicks]))

\* the silent clip plays to its end: "pause", "ended"
SilentEnded ==
  /\ audio.src = SILENT_MP3 /\ ~audio.paused
  /\ UNCHANGED <<chunkVars, ttsVars, downloadVars, syncVars, gestures>>
  /\ handleChapterEnd(AtEnd(audio))

\* pause(), from the player bar or the lock screen
Pause ==
  /\ isActive
  /\ UNCHANGED completedBook
  /\ Gesture
  /\ audio' = [audio EXCEPT !.paused = TRUE]
  /\ isPlaying' = IF audio.paused THEN isPlaying ELSE FALSE
  /\ UNCHANGED <<chunkVars, ttsVars, downloadVars, syncVars, storeVars, engineFrame, visibilityState>>
  /\ Render(nextChapterBlobUrlRef, prefetches, NoRun)

\* resume(), from the player bar or the lock screen
Resume ==
  /\ isActive
  /\ completedBook' = NoBook
  /\ Gesture
  /\ audio' = Play(audio)
  /\ isPlaying' = IF audio.paused THEN TRUE ELSE isPlaying
  /\ UNCHANGED <<chunkVars, ttsVars, downloadVars, syncVars, storeVars, engineFrame, visibilityState>>
  /\ Render(nextChapterBlobUrlRef, prefetches, NoRun)

nextChapter ==
  /\ isActive
  /\ bookRef # NoBook /\ currentChapter # NoChapter
  /\ Gesture
  /\ UNCHANGED <<chunkVars, ttsVars, downloadVars, syncVars>>
  /\ IF currentChapter + 1 < NumChapters
     THEN StartLoad(currentChapter + 1, FALSE, audio, isPlaying, NoRun)
     ELSE /\ run' = NoRun
          /\ UNCHANGED <<storeVars, engineFrame, isPlaying, audio,
                         nextChapterBlobUrlRef, prefetches, visibilityState,
                         completedBook, preview, clicks>>

\* audio.currentTime > 3: a tick is five seconds
PastRestartThreshold(a) == a.currentTime >= 1

prevChapter ==
  /\ isActive
  /\ bookRef # NoBook /\ currentChapter # NoChapter
  /\ Gesture
  /\ UNCHANGED <<chunkVars, ttsVars, downloadVars, syncVars>>
  /\ IF ~PastRestartThreshold(audio) /\ currentChapter - 1 >= 0
     THEN StartLoad(currentChapter - 1, FALSE, audio, isPlaying, NoRun)
     ELSE /\ audio' = [audio EXCEPT !.currentTime = 0, !.ended = FALSE]
          /\ completedBook' = NoBook
          /\ run' = NoRun
          /\ UNCHANGED <<storeVars, engineFrame, isPlaying,
                         nextChapterBlobUrlRef, prefetches, visibilityState,
                         preview, clicks>>

\* close(): audio.pause(); audio.src = ""; the position read afterwards for
\* saveProgress is that of the emptied element
close ==
  /\ isActive
  /\ UNCHANGED completedBook
  /\ visibilityState = "visible"
  /\ Gesture
  /\ audio' = SetSrc(NoBlob)
  /\ progress' =
       IF currentBookId # NoBook /\ currentChapter # NoChapter
       THEN PutProgress(progress,
                        BookProgress(currentBookId, currentChapter,
                                     SetSrc(NoBlob).currentTime, FALSE))
       ELSE progress
  /\ currentBlobUrlRef' = NoBlob
  /\ isActive' = FALSE
  /\ isPlaying' = FALSE
  /\ currentBookId' = NoBook
  /\ currentChapter' = NoChapter
  /\ bookRef' = NoBook
  /\ UNCHANGED <<chunkVars, ttsVars, downloadVars, syncVars, books, audioCache, op, ret, prevCache,
                 written, isLoading, voice, isLoadingChapterRef, loads,
                 retryPlay, visibilityState>>
  /\ Render(NoBlob, prefetches, NoRun)

\* the 5000 ms interval that runs while isPlaying
PeriodicSave ==
  /\ isPlaying /\ currentBookId # NoBook /\ currentChapter # NoChapter
  /\ UNCHANGED completedBook
  /\ ~Busy
  /\ gestures' = gestures
  /\ progress' =
       PutProgress(progress,
                   BookProgress(currentBookId, currentChapter,
                                audio.currentTime, FALSE))
  /\ UNCHANGED <<chunkVars, ttsVars, downloadVars, syncVars, books, audioCache, op, ret, prevCache,
                 written, engineFrame, isPlaying, audio, visibilityState>>
  /\ Render(nextChapterBlobUrlRef, prefetches, run)

\* visibilitychange to hidden: saveNow()
AppHidden ==
  /\ visibilityState = "visible"
  /\ UNCHANGED completedBook
  /\ visibilityState' = "hidden"
  /\ ~Busy
  /\ gestures' = gestures
  /\ progress' =
       IF currentBookId # NoBook /\ currentChapter # NoChapter
       THEN PutProgress(progress,
                        BookProgress(currentBookId, currentChapter,
                                     audio.currentTime, FALSE))
       ELSE progress
  /\ UNCHANGED <<chunkVars, ttsVars, downloadVars, syncVars, books, audioCache, op, ret, prevCache,
                 written, engineFrame, isPlaying, audio>>
  /\ Render(nextChapterBlobUrlRef, prefetches, NoRun)

\* visibilitychange to visible: a registered retryPlay removes itself and
\* calls audio.play()
AppVisible ==
  /\ visibilityState = "hidden"
  /\ UNCHANGED completedBook
  /\ visibilityState' = "visible"
  /\ ~Busy
  /\ gestures' = gestures
  /\ retryPlay' = FALSE
  /\ audio' = IF retryPlay THEN Play(audio) ELSE audio
  /\ isPlaying' = IF retryPlay /\ audio.paused THEN TRUE ELSE isPlaying
  /\ UNCHANGED <<chunkVars, ttsVars, downloadVars, syncVars, storeVars, isActive, isLoading,
                 currentBookId, currentChapter, voice, bookRef,
                 isLoadingChapterRef, currentBlobUrlRef, loads>>
  /\ Render(nextChapterBlobUrlRef, prefetches, NoRun)

\* ----------------------------------- components/LiteraturePlayButton.tsx

MaxClicks == 3

\* audio.src = url; audio.currentTime = 0; await audio.play(); then
\* "speechsynthesis-play" is dispatched and the engine's listener pauses the
\* engine's element.  pv is the component as the handler left it so far.
PreviewPlayed(pv) ==
  /\ preview' = [pv EXCEPT !.hasAudio = TRUE, !.src = TRUE, !.currentTime = 0,
                           !.loaded = TRUE, !.paused = FALSE,
                           !.playing = TRUE, !.loading = FALSE]
  /\ audio' = [audio EXCEPT !.paused = TRUE]
  /\ isPlaying' = IF audio.paused THEN isPlaying ELSE FALSE
  /\ UNCHANGED <<storeVars, engineFrame, visibilityState, gestures,
                 completedBook>>
  /\ Effects(nextChapterBlobUrlRef, prefetches, NoRun)

previewFrame ==
  <<storeVars, engineFrame, isPlaying, audio, nextChapterBlobUrlRef,
    prefetches, visibilityState, gestures, run, completedBook>>

\* handleClick up to its first await on the network
SampleClick ==
  /\ ~preview.loading
  /\ visibilityState = "visible"
  /\ ~Busy
  /\ clicks < MaxClicks
  /\ clicks' = clicks + 1
  /\ UNCHANGED <<chunkVars, ttsVars, downloadVars, syncVars>>
  /\ IF preview.playing /\ preview.hasAudio
     THEN /\ preview' = [preview EXCEPT !.paused = TRUE, !.playing = FALSE]
          /\ UNCHANGED previewFrame
     ELSE IF /\ preview.loaded /\ preview.hasAudio /\ preview.src
             /\ preview.paused /\ preview.currentTime > 0
     THEN /\ preview' = [preview EXCEPT !.paused = FALSE, !.playing = TRUE]
          /\ UNCHANGED previewFrame
     ELSE IF preview.cached
     THEN PreviewPlayed(preview)
     ELSE /\ preview' = [preview EXCEPT !.loading = TRUE]
          /\ UNCHANGED previewFrame

\* POST /api/tts for the sample answered
SampleFetched ==
  \E ok \in BOOLEAN :
    /\ preview.loading
    /\ UNCHANGED <<chunkVars, ttsVars, downloadVars, syncVars, clicks>>
    /\ IF ok
       THEN PreviewPlayed([preview EXCEPT !.cached = TRUE])
       ELSE /\ preview' = [preview EXCEPT !.loading = FALSE]
            /\ UNCHANGED previewFrame

\* the sample plays on
SampleTick ==
  /\ preview.hasAudio /\ ~preview.paused
  /\ preview.currentTime = 0
  /\ preview' = [preview EXCEPT !.currentTime = 1]
  /\ UNCHANGED <<chunkVars, ttsVars, downloadVars, syncVars, clicks, previewFrame>>

\* the sample plays to its end: onpause, onended
SampleEnded ==
  /\ preview.hasAudio /\ ~preview.paused
  /\ preview.currentTime > 0
  /\ preview' = [preview EXCEPT !.paused = TRUE, !.playing = FALSE]
  /\ UNCHANGED <<chunkVars, ttsVars, downloadVars, syncVars, clicks, previewFrame>>

NextPreview ==
  \/ SampleClick
  \/ SampleFetched
  \/ SampleTick
  \/ SampleEnded
  \/ PlayChapter
  \/ LoadCached
  \/ LoadFetched
  \/ LoadProgress
  \/ LoadSettled
  \/ PrefetchCached
  \/ PrefetchFetched
  \/ Tick
  \/ ChapterEnded
  \/ SilentEnded
  \/ Pause
  \/ Resume

NextPlayer ==
  \/ PlayChapter
  \/ BookCardPlay
  \/ LoadCached
  \/ LoadFetched
  \/ LoadProgress
  \/ LoadSettled
  \/ PrefetchCached
  \/ PrefetchFetched
  \/ Tick
  \/ ChapterEnded
  \/ SilentEnded
  \/ Pause
  \/ Resume
  \/ nextChapter
  \/ prevChapter
  \/ close
  \/ PeriodicSave
  \/ AppHidden
  \/ AppVisible

\* ------------------------------------------- segmentation as a state machine

MaxPieces == 5

SentenceSizes == {30, 145, 440, 600}

\* a sentence of n words ending in a full stop
SentencePiece(n) == <<Run("w", n), dot>>

\* a blank line
ParagraphBreak == <<nl, nl>>

\* a heading on a line of its own, "\nChapter I\n"
MarkerPiece == <<nl, Tok("K"), sp, Tok("I"), nl>>

ChunkPieces ==
  {SentencePiece(n) : n \in SentenceSizes} \cup {ParagraphBreak, MarkerPiece}

\* the pieces in order; a piece that follows a sentence on the same line is
\* separated from it by one space
RECURSIVE JoinPieces(_)
JoinPieces(ps) ==
  IF ps = << >> THEN << >>
  ELSE IF Len(ps) = 1 THEN ps[1]
  ELSE IF Len(ps[1]) > 1 /\ ps[1][Len(ps[1])] = dot /\ ~IsWs(ps[2][1])
       THEN ps[1] \o <<sp>> \o JoinPieces(Tail(ps))
       ELSE ps[1] \o JoinPieces(Tail(ps))

\* the text handed to chunkIntoChapters
InputText == JoinPieces(input)

InitChunk ==
  /\ input = << >>
  /\ chapters = << >>
  /\ cpc = "input"
  /\ reqChapter = -1
  /\ reqText = << >>
  /\ response = "none"

AddPiece(pieces) ==
  /\ cpc = "input"
  /\ Len(input) < MaxPieces
  /\ \E p \in pieces : input' = Append(input, p)
  /\ UNCHANGED <<chapters, cpc, ttsVars, downloadVars, syncVars, storeVars, playerVars>>

\* const chapters = chunkIntoChapters(cleanText)
ChunkText ==
  /\ cpc = "input"
  /\ chapters' = chunkIntoChapters(InputText)
  /\ cpc' = "done"
  /\ UNCHANGED <<input, ttsVars, downloadVars, syncVars, storeVars, playerVars>>

NextChunk == AddPiece(ChunkPieces) \/ ChunkText

\* --------------------------------------------- synthesis requests per chapter

\* prose: a two-letter word, the one-letter word "I", a full stop, a space, a
\* line break; and beside it a tag, a long run of plain words and a run of
\* words joined by em dashes
TTSPieces ==
  { <<Run("w", 1)>>, <<Tok("I")>>, <<dot>>, <<sp>>, <<nl>>, <<Tok("tag")>>,
    <<Run("w", 560)>>, <<Run("wd", 41)>> }

\* fetchAudio(chapter.text, voice.id) and the POST handler that receives it
FetchAudio ==
  /\ cpc = "done"
  /\ \E k \in 1..Len(chapters) :
       /\ reqChapter' = chapters[k].index
       /\ reqText' = preprocessForTTS(chapters[k].text)
       /\ response' \in Responses(preprocessForTTS(chapters[k].text))
  /\ UNCHANGED <<chunkVars, downloadVars, syncVars, storeVars, playerVars>>

NextTTS == AddPiece(TTSPieces) \/ ChunkText \/ FetchAudio

\* ------------------------------------------------ the store as a state machine

MaxEntries == 3

\* two ids, the second one the first followed by "-1"
BookIds == {<<"b">>, <<"b", "-", "1">>}

StoreChapters == 0..1

VoiceIds == {DOWNLOAD_VOICE_ID, <<"A">>}

Blobs == {Blob(<<"x">>, 3), Blob(<<"y">>, 5)}

Triple(bookId, chapterIndex, voiceId) ==
  [bookId |-> bookId, chapterIndex |-> chapterIndex, voiceId |-> voiceId]

KeyOf(w) == audioCacheKey(w.bookId, w.chapterIndex, w.voiceId)

\* addBook(book)
AddBook ==
  \E id \in BookIds :
    /\ books' = books \cup {id}
    /\ op' = Op("addBook", id, << >>)
    /\ ret' = Void
    /\ prevCache' = audioCache
    /\ UNCHANGED <<audioCache, progress, written, chunkVars, ttsVars, downloadVars, syncVars, playerVars>>

\* setCachedAudio(audioCacheKey(bookId, chapterIndex, voiceId), blob)
SetCachedAudio ==
  \E id \in BookIds, i \in StoreChapters, v \in VoiceIds, b \in Blobs :
    LET key == audioCacheKey(id, i, v)
    IN /\ Cardinality(PutEntry(audioCache, key, b)) <= MaxEntries
       /\ audioCache' = PutEntry(audioCache, key, b)
       /\ written' = {w \in written : w.triple # Triple(id, i, v)}
                       \cup {[triple |-> Triple(id, i, v), blob |-> b]}
       /\ op' = Op("setCachedAudio", id, key)
       /\ ret' = Void
       /\ prevCache' = audioCache
       /\ UNCHANGED <<books, progress, chunkVars, ttsVars, downloadVars, syncVars, playerVars>>

\* getCachedAudio(audioCacheKey(bookId, chapterIndex, voiceId))
GetCachedAudio ==
  \E id \in BookIds, i \in StoreChapters, v \in VoiceIds :
    LET key == audioCacheKey(id, i, v)
    IN /\ op' = Op("getCachedAudio", id, key)
       /\ ret' = BlobOrNull(getCachedAudio(audioCache, key))
       /\ prevCache' = audioCache
       /\ UNCHANGED <<books, audioCache, progress, written, chunkVars, ttsVars, downloadVars, syncVars, playerVars>>

\* saveProgress(progress)
SaveProgress ==
  \E id \in BookIds :
    /\ progress' = PutProgress(progress, BookProgress(id, 0, 0, FALSE))
    /\ op' = Op("saveProgress", id, << >>)
    /\ ret' = Void
    /\ prevCache' = audioCache
    /\ UNCHANGED <<books, audioCache, written, chunkVars, ttsVars, downloadVars, syncVars, playerVars>>

\* deleteBook(id): the book, its cache entries, its progress
DeleteBook ==
  \E id \in BookIds :
    /\ books' = books \ {id}
    /\ audioCache' = DeleteEntries(audioCache, id)
    /\ progress' = {q \in progress : q.bookId # id}
    /\ written' = {w \in written : ~StartsWith(KeyOf(w.triple), id \o Dash)}
    /\ op' = Op("deleteBook", id, << >>)
    /\ ret' = Void
    /\ prevCache' = audioCache
    /\ UNCHANGED <<chunkVars, ttsVars, downloadVars, syncVars, playerVars>>

\* deleteBookAudioCache(bookId): returns freedBytes
DeleteBookAudioCache ==
  \E id \in BookIds :
    /\ audioCache' = DeleteEntries(audioCache, id)
    /\ written' = {w \in written : ~StartsWith(KeyOf(w.triple), id \o Dash)}
    /\ op' = Op("deleteBookAudioCache", id, << >>)
    /\ ret' = Bytes(SumSizes(BookEntries(audioCache, id)))
    /\ prevCache' = audioCache
    /\ UNCHANGED <<books, progress, chunkVars, ttsVars, downloadVars, syncVars, playerVars>>

\* getTotalAudioCacheSize() and getBookAudioCacheSize(bookId)
GetCacheSize ==
  /\ \/ /\ op' = Op("getTotalAudioCacheSize", << >>, << >>)
        /\ ret' = Bytes(getTotalAudioCacheSize(audioCache))
     \/ \E id \in BookIds :
          /\ op' = Op("getBookAudioCacheSize", id, << >>)
          /\ ret' = Bytes(getBookAudioCacheSize(audioCache, id))
  /\ prevCache' = audioCache
  /\ UNCHANGED <<books, audioCache, progress, written, chunkVars, ttsVars, downloadVars, syncVars, playerVars>>

NextStore ==
  \/ AddBook
  \/ SetCachedAudio
  \/ GetCachedAudio
  \/ SaveProgress
  \/ DeleteBook
  \/ DeleteBookAudioCache
  \/ GetCacheSize

\* ------------------------------- lib/tts-preprocessor.ts: aggressiveCleanup

\* t.replace(/[^\x20-\x7E\n]/g, " ") and the character whitelist after it: a
\* dash between two words and the angle brackets of a tag become spaces
RECURSIVE StripToAscii(_)
StripToAscii(s) ==
  IF s = << >> THEN << >>
  ELSE LET t == Head(s)
       IN (CASE t.c = "wd" -> <<Run("w", t.n)>>
             [] t.c = "tag" -> <<sp, Run("w", 1), sp>>
             [] OTHER -> <<t>>) \o StripToAscii(Tail(s))

\* t.replace(/\n{3,}/g, "\n\n")
RECURSIVE CollapseNewlines(_)
CollapseNewlines(s) ==
  IF s = << >> THEN << >>
  ELSE IF Len(s) >= 3 /\ s[1] = nl /\ s[2] = nl /\ s[3] = nl
       THEN CollapseNewlines(Tail(s))
       ELSE <<Head(s)>> \o CollapseNewlines(Tail(s))

\* t.split("\n")
RECURSIVE SplitLines(_, _)
SplitLines(s, cur) ==
  IF s = << >> THEN <<cur>>
  ELSE IF Head(s) = nl THEN <<cur>> \o SplitLines(Tail(s), << >>)
  ELSE SplitLines(Tail(s), Append(cur, Head(s)))

\* the filter of aggressiveCleanup: empty lines and lines of two words or more
KeepLine(line) == Trim(line) = << >> \/ WordCount(Trim(line)) >= 2

aggressiveCleanup(text) ==
  Trim(Join(SelectSeq(SplitLines(CollapseNewlines(CollapseSpaces(StripToAscii(text))),
                                 << >>),
                      KeepLine),
            <<nl>>))

\* ------------------------ components/library/LibraryPage.tsx: the downloads

\* the ceiling of the audio cache; sizes are counted in GB
MAX_DOWNLOAD_BYTES == 20

MAX_RETRIES == 3

\* number of readings of the archive that are not in the library yet
MaxImports == 2

\* a count that looks the chapters up under the key without a voice
getBookCachedChapterCount_NoVoice(store, bookId, totalChapters) ==
  Cardinality({i \in 0..(totalChapters - 1) :
                 \E e \in store : e.key = audioCacheKey(bookId, i, NoVoice)})

getBookCachedChapterCount(store, bookId, totalChapters) ==
  Cardinality({i \in 0..(totalChapters - 1) :
                 \E e \in store : e.key = audioCacheKey(bookId, i, DOWNLOAD_VOICE_ID)})

\* `Chapter ${chIdx + 1} could not be generated. ...`
placeholderText(chIdx) == <<[c |-> "placeholder", n |-> chIdx + 1]>>

\* the text of the request a tier of the fallback sends for a chapter
TierText(tier, chIdx) ==
  CASE tier = 1 -> preprocessForTTS(Book.chapters[chIdx + 1])
    [] tier = 2 -> aggressiveCleanup(Book.chapters[chIdx + 1])
    [] OTHER -> placeholderText(chIdx)

\* the audio POST /api/tts returns for that request
TierAudio(tier, chIdx) ==
  CASE tier = 1 -> Synth(chIdx, DOWNLOAD_VOICE_ID)
    [] tier = 2 -> Blob(<<"c">> \o Decimal(chIdx) \o DOWNLOAD_VOICE_ID, 1 + chIdx)
    [] OTHER -> Blob(<<"p">> \o Decimal(chIdx + 1) \o DOWNLOAD_VOICE_ID, 1)

\* what a tier that stored its audio leaves as the chapter's outcome
TierOutcome(tier) ==
  CASE tier = 1 -> "audio" [] tier = 2 -> "cleaned" [] OTHER -> "placeholder"

\* a call of handleDownload suspended at an await: the chapters it generates,
\* its place in them, the tier and attempt of the request, doneCount; late
\* records that the request was sent while the book's abort flag was set
Download(pc, toGenerate, pos, tier, attempt, doneCount) ==
  [pc |-> pc, toGenerate |-> toGenerate, pos |-> pos, tier |-> tier,
   attempt |-> attempt, doneCount |-> doneCount, late |-> FALSE,
   req |-> IF pc = "fetch"
           THEN [text |-> TierText(tier, toGenerate[pos]), voice |-> DOWNLOAD_VOICE_ID]
           ELSE NoRequest]

NoDownload == Download("idle", << >>, 0, 0, 0, 0)

\* no request sent and nothing stored for any chapter
NothingSent == [i \in 0..(NumChapters - 1) |-> [requests |-> 0, stores |-> 0]]

\* the count after the run has moved to d: a run that is at a fetch has just
\* sent the request of its chapter
AfterSend(counts, d) ==
  IF d.pc = "fetch"
  THEN [counts EXCEPT ![d.toGenerate[d.pos]].requests = @ + 1]
  ELSE counts

\* for (attempt = 1; attempt <= MAX_RETRIES && !generated; attempt++)
RetryAgain_Always(tier, attempt) == tier = 1

RetryAgain(tier, attempt) == tier = 1 /\ attempt < MAX_RETRIES

\* downloadProgressMap without an entry for the book
NoProgress == [done |-> 0 - 1, total |-> 0 - 1]

\* importState === null
NoImport == [phase |-> "null", queue |-> {}]

\* the id and the first chapter's audio of the n-th reading of the archive
ImportedId(n) == <<"i">> \o Decimal(n)

ImportedAudio(n) == Blob(<<"i">> \o Decimal(n), 9)

\* ------------------------------------------------- the ways into the library

\* number of times the add-by-URL form is submitted
MaxSubmits == 2

\* number of chapters of the reading the modal downloads
PipelineChapters == 6

TTS_CONCURRENCY == 3

CHAPTER_CONCURRENCY == 5

\* the url of the n-th reading of the archive
ArchiveUrl(n) == <<"u">> \o Decimal(n)

\* crypto.randomUUID() of the k-th submission of the form and of the modal
FormId(k) == <<"f">> \o Decimal(k)

ModalId == <<"d">>

\* the url field of the stored book with that id: the form and the modal are
\* given the url of the archive's first reading
sourceUrl(id) ==
  IF \E n \in 1..MaxImports : id = ImportedId(n)
  THEN ArchiveUrl(CHOOSE n \in 1..MaxImports : id = ImportedId(n))
  ELSE IF id = ModalId \/ \E k \in 1..MaxSubmits : id = FormId(k)
  THEN ArchiveUrl(1)
  ELSE <<"u">> \o id

\* existing.find((b) => b.url === url)
FindByUrl(bks, url) ==
  IF \E b \in bks : sourceUrl(b) = url
  THEN CHOOSE b \in bks : sourceUrl(b) = url
  ELSE NoBook

\* the audio POST /api/tts returns for a chapter of the reading
ReadingAudio(chIdx) == Blob(<<"r">> \o Decimal(chIdx), 1)

NoPipeline ==
  [kind |-> "none", pc |-> "idle", phase |-> "none", book |-> NoBook,
   toGenerate |-> << >>, skip |-> {}, batch |-> 0, inFlight |-> {},
   started |-> {}, results |-> {}, cancelled |-> {}, cancelledBook |-> NoBook]

\* no earlier call of handleDownload is suspended
NoEarlier == [run |-> NoDownload, cancelled |-> FALSE]

\* loadBooks has finished
BooksLoaded == [pc |-> "done", dlMap |-> "none"]

InitDownload ==
  /\ pipeline = NoPipeline
  /\ earlier = NoEarlier
  /\ loaded = BooksLoaded
  /\ downloadStatusMap = "none"
  /\ downloadProgressMap = NoProgress
  /\ totalStorageUsed = 0
  /\ downloadAbortRef = FALSE
  /\ download = NoDownload
  /\ outcome = [i \in 0..(NumChapters - 1) |-> "pending"]
  /\ storageAlert = FALSE
  /\ sent = NothingSent
  /\ importState = NoImport

\* what the download handlers never touch
runFrame ==
  <<chunkVars, ttsVars, playerVars, syncVars, op, ret, prevCache, pipeline>>

downloadFrame == <<runFrame, earlier, loaded>>

\* setCachedAudio and the per-book deletes, as the store's history sees them
WrittenAfterPut(chIdx, blob) ==
  {w \in written : w.triple # Triple(Book.id, chIdx, DOWNLOAD_VOICE_ID)}
    \cup {[triple |-> Triple(Book.id, chIdx, DOWNLOAD_VOICE_ID), blob |-> blob]}

WrittenAfterDelete(id) ==
  {w \in written : ~StartsWith(KeyOf(w.triple), id \o Dash)}

\* handleBookAdded(book): the id is a fresh UUID, so no run works on it
handleBookAdded ==
  /\ Book.id \notin books
  /\ download.pc = "idle"
  /\ books' = books \cup {Book.id}
  /\ downloadStatusMap' = "none"
  /\ UNCHANGED <<audioCache, progress, written, downloadProgressMap,
                 totalStorageUsed, downloadAbortRef, download, outcome,
                 storageAlert, sent, importState, downloadFrame>>

\* "Check final status" and what follows it in handleDownload
FinalStatus(store) ==
  /\ downloadStatusMap' =
       IF getBookCachedChapterCount(store, Book.id, NumChapters) >= NumChapters
       THEN "downloaded" ELSE "none"
  /\ downloadProgressMap' = NoProgress
  /\ totalStorageUsed' = getTotalAudioCacheSize(store)
  /\ download' = NoDownload

\* the storage check that opens handleDownload
StorageFull(used) == used >= MAX_DOWNLOAD_BYTES

\* handleDownload(bookId) up to its first request: the download button is
\* rendered while the book's status is "none".  A call that is suspended goes
\* on beside the new one; two calls at a time are followed.
handleDownload ==
  /\ Book.id \in books
  /\ downloadStatusMap = "none"
  /\ download.pc = "idle" \/ earlier.run.pc = "idle"
  /\ IF StorageFull(totalStorageUsed)
     THEN /\ storageAlert' = TRUE
          /\ UNCHANGED <<downloadStatusMap, downloadProgressMap, downloadAbortRef,
                         download, outcome, totalStorageUsed, sent, earlier>>
     ELSE LET missing(i) ==
                getCachedAudio(audioCache, audioCacheKey(Book.id, i, DOWNLOAD_VOICE_ID)) = NoBlob
              toGenerate ==
                SelectSeq([k \in 1..NumChapters |-> k - 1], missing)
              alreadyCached == NumChapters - Len(toGenerate)
          IN /\ storageAlert' = FALSE
             /\ downloadAbortRef' = FALSE
             /\ outcome' = [i \in 0..(NumChapters - 1) |->
                              IF missing(i) THEN "pending" ELSE "cached"]
             /\ UNCHANGED totalStorageUsed
             /\ IF toGenerate = << >>
                THEN /\ downloadStatusMap' = "downloaded"
                     /\ downloadProgressMap' = NoProgress
                     /\ download' = NoDownload
                ELSE /\ downloadStatusMap' = "downloading"
                     /\ downloadProgressMap' =
                          [done |-> alreadyCached, total |-> NumChapters]
                     /\ download' = Download("fetch", toGenerate, 1, 1, 1, alreadyCached)
             /\ sent' = AfterSend(NothingSent, download')
             /\ earlier' = IF download.pc = "idle" THEN earlier
                           ELSE [run |-> download, cancelled |-> downloadAbortRef]
  /\ UNCHANGED <<books, audioCache, progress, written, importState, runFrame,
                 loaded>>

\* one request of the fallback is answered: the audio is stored, or the
\* attempt is repeated after RETRY_DELAY_MS, or the next tier is tried, or the
\* chapter is skipped; after the last chapter the status is computed
DownloadAnswered ==
  \E ok \in BOOLEAN :
    LET d == download
        chIdx == d.toGenerate[d.pos]
        cache1 == IF ok
                  THEN PutEntry(audioCache,
                                audioCacheKey(Book.id, chIdx, DOWNLOAD_VOICE_ID),
                                TierAudio(d.tier, chIdx))
                  ELSE audioCache
    IN /\ d.pc = "fetch"
       /\ audioCache' = cache1
       /\ written' = IF ok THEN WrittenAfterPut(chIdx, TierAudio(d.tier, chIdx))
                     ELSE written
       /\ IF ok \/ d.tier = 3
          THEN /\ outcome' = [outcome EXCEPT
                                ![chIdx] = IF ok THEN TierOutcome(d.tier) ELSE "skipped"]
               /\ IF d.pos < Len(d.toGenerate)
                  THEN /\ download' = Download("chapterDelay", d.toGenerate, d.pos,
                                               0, 0, d.doneCount + 1)
                       /\ downloadProgressMap' =
                            [done |-> d.doneCount + 1, total |-> NumChapters]
                       /\ UNCHANGED <<downloadStatusMap, totalStorageUsed>>
                  ELSE FinalStatus(cache1)
          ELSE /\ download' =
                    IF RetryAgain(d.tier, d.attempt)
                    THEN Download("retryDelay", d.toGenerate, d.pos, 1, d.attempt, d.doneCount)
                    ELSE [Download("fetch", d.toGenerate, d.pos, d.tier + 1, 1,
                                   d.doneCount) EXCEPT !.late = downloadAbortRef]
               /\ UNCHANGED <<outcome, downloadStatusMap, downloadProgressMap,
                              totalStorageUsed>>
       /\ sent' = AfterSend(IF ok THEN [sent EXCEPT ![chIdx].stores = @ + 1]
                            ELSE sent, download')
       /\ UNCHANGED <<books, progress, downloadAbortRef, storageAlert, importState,
                      downloadFrame>>

\* RETRY_DELAY_MS has passed: the next attempt on the preprocessed text
DownloadRetry ==
  /\ download.pc = "retryDelay"
  /\ download' = [Download("fetch", download.toGenerate, download.pos, 1,
                           download.attempt + 1, download.doneCount)
                    EXCEPT !.late = downloadAbortRef]
  /\ sent' = AfterSend(sent, download')
  /\ UNCHANGED <<books, audioCache, progress, written, downloadStatusMap,
                 downloadProgressMap, totalStorageUsed, downloadAbortRef, outcome,
                 storageAlert, importState, downloadFrame>>

\* the flag test that opens an iteration of the chapter loop
Cancelled_Never(flag) == FALSE

Cancelled(flag) == flag

\* CHAPTER_DELAY_MS has passed: the next iteration of the chapter loop
DownloadNextChapter ==
  /\ download.pc = "chapterDelay"
  /\ IF Cancelled(downloadAbortRef)
     THEN FinalStatus(audioCache)
     ELSE /\ download' = Download("fetch", download.toGenerate, download.pos + 1,
                                  1, 1, download.doneCount)
          /\ UNCHANGED <<downloadStatusMap, downloadProgressMap, totalStorageUsed>>
  /\ sent' = AfterSend(sent, download')
  /\ UNCHANGED <<books, audioCache, progress, written, downloadAbortRef, outcome,
                 storageAlert, importState, downloadFrame>>

\* "Check final status" and what follows it, in the earlier call
EarlierFinal(store) ==
  /\ downloadStatusMap' =
       IF getBookCachedChapterCount(store, Book.id, NumChapters) >= NumChapters
       THEN "downloaded" ELSE "none"
  /\ downloadProgressMap' = NoProgress
  /\ totalStorageUsed' = getTotalAudioCacheSize(store)
  /\ earlier' = NoEarlier

\* what the earlier call never touches
earlierFrame ==
  <<books, progress, downloadAbortRef, download, outcome, storageAlert, sent,
    importState, runFrame, loaded>>

\* a request of the earlier call is answered
EarlierAnswered ==
  \E ok \in BOOLEAN :
    LET d == earlier.run
        chIdx == d.toGenerate[d.pos]
        cache1 == IF ok
                  THEN PutEntry(audioCache,
                                audioCacheKey(Book.id, chIdx, DOWNLOAD_VOICE_ID),
                                TierAudio(d.tier, chIdx))
                  ELSE audioCache
    IN /\ d.pc = "fetch"
       /\ audioCache' = cache1
       /\ written' = IF ok THEN WrittenAfterPut(chIdx, TierAudio(d.tier, chIdx))
                     ELSE written
       /\ IF ok \/ d.tier = 3
          THEN IF d.pos < Len(d.toGenerate)
               THEN /\ earlier' =
                         [earlier EXCEPT
                            !.run = Download("chapterDelay", d.toGenerate, d.pos,
                                             0, 0, d.doneCount + 1)]
                    /\ downloadProgressMap' =
                         [done |-> d.doneCount + 1, total |-> NumChapters]
                    /\ UNCHANGED <<downloadStatusMap, totalStorageUsed>>
               ELSE EarlierFinal(cache1)
          ELSE /\ earlier' =
                    [earlier EXCEPT
                       !.run = IF RetryAgain(d.tier, d.attempt)
                               THEN Download("retryDelay", d.toGenerate, d.pos, 1,
                                             d.attempt, d.doneCount)
                               ELSE Download("fetch", d.toGenerate, d.pos,
                                             d.tier + 1, 1, d.doneCount)]
               /\ UNCHANGED <<downloadStatusMap, downloadProgressMap,
                              totalStorageUsed>>
       /\ UNCHANGED earlierFrame

\* RETRY_DELAY_MS has passed in the earlier call
EarlierRetry ==
  /\ earlier.run.pc = "retryDelay"
  /\ earlier' =
       [earlier EXCEPT
          !.run = Download("fetch", @.toGenerate, @.pos, 1, @.attempt + 1,
                           @.doneCount)]
  /\ UNCHANGED <<audioCache, written, downloadStatusMap, downloadProgressMap,
                 totalStorageUsed, earlierFrame>>

\* CHAPTER_DELAY_MS has passed in the earlier call: it tests the book's flag,
\* which is the one the later call has reset
EarlierNextChapter ==
  /\ earlier.run.pc = "chapterDelay"
  /\ IF Cancelled(downloadAbortRef)
     THEN EarlierFinal(audioCache)
     ELSE /\ earlier' =
               [earlier EXCEPT
                  !.run = Download("fetch", @.toGenerate, @.pos + 1, 1, 1,
                                   @.doneCount)]
          /\ UNCHANGED <<downloadStatusMap, downloadProgressMap, totalStorageUsed>>
  /\ UNCHANGED <<audioCache, written, earlierFrame>>

\* the page has mounted and shows the stored books
BooksShown == [pc |-> "mounted", dlMap |-> "none"]

\* the loop of loadBooks: the book's status is computed from the cache
loadBooks ==
  /\ loaded.pc = "mounted"
  /\ loaded' =
       [pc |-> "counted",
        dlMap |-> IF /\ Book.id \in books
                     /\ getBookCachedChapterCount(audioCache, Book.id, NumChapters)
                          >= NumChapters
                  THEN "downloaded" ELSE "none"]
  /\ UNCHANGED <<books, audioCache, progress, written, downloadStatusMap,
                 downloadProgressMap, totalStorageUsed, downloadAbortRef,
                 download, outcome, storageAlert, sent, importState, runFrame,
                 earlier>>

\* the end of loadBooks: setDownloadStatusMap(dlMap) replaces the map, then
\* the storage used is read
loadBooksEnd ==
  /\ loaded.pc = "counted"
  /\ loaded' = BooksLoaded
  /\ downloadStatusMap' = loaded.dlMap
  /\ totalStorageUsed' = getTotalAudioCacheSize(audioCache)
  /\ UNCHANGED <<books, audioCache, progress, written, downloadProgressMap,
                 downloadAbortRef, download, outcome, storageAlert, sent,
                 importState, runFrame, earlier>>

\* a count that returns the size of the whole cache
freedBytes_Total(store, bookId) == SumSizes(store)

\* freedBytes of deleteBookAudioCache(bookId)
freedBytes(store, bookId) == SumSizes(BookEntries(store, bookId))

\* handleRemoveDownload(bookId): the button of a downloaded book
handleRemoveDownload ==
  /\ Book.id \in books
  /\ downloadStatusMap = "downloaded"
  /\ downloadAbortRef' = TRUE
  /\ audioCache' = DeleteEntries(audioCache, Book.id)
  /\ written' = WrittenAfterDelete(Book.id)
  /\ downloadStatusMap' = "none"
  /\ totalStorageUsed' =
       LET freed == freedBytes(audioCache, Book.id)
       IN IF totalStorageUsed - freed > 0 THEN totalStorageUsed - freed ELSE 0
  /\ UNCHANGED <<books, progress, downloadProgressMap, download, outcome,
                 storageAlert, sent, importState, downloadFrame>>

\* the voice the listener has chosen in the player
LISTENING_VOICE_ID == <<"A">>

\* loadAndPlayChapter of the player on the book's first chapter, with the
\* listener's voice: the cache is missed, the audio is synthesized and stored
ChapterPlayed ==
  LET key == audioCacheKey(Book.id, 0, LISTENING_VOICE_ID)
  IN /\ Book.id \in books
     /\ getCachedAudio(audioCache, key) = NoBlob
     /\ audioCache' = PutEntry(audioCache, key, Synth(0, LISTENING_VOICE_ID))
     /\ written' =
          written \cup {[triple |-> Triple(Book.id, 0, LISTENING_VOICE_ID),
                         blob |-> Synth(0, LISTENING_VOICE_ID)]}
     /\ UNCHANGED <<books, progress, downloadVars, downloadFrame>>

\* handleDelete(id) of the library page
handleDelete ==
  /\ Book.id \in books
  /\ downloadAbortRef' = TRUE
  /\ books' = books \ {Book.id}
  /\ audioCache' = DeleteEntries(audioCache, Book.id)
  /\ progress' = {q \in progress : q.bookId # Book.id}
  /\ written' = WrittenAfterDelete(Book.id)
  /\ downloadStatusMap' = "none"
  /\ totalStorageUsed' = getTotalAudioCacheSize(DeleteEntries(audioCache, Book.id))
  /\ UNCHANGED <<downloadProgressMap, download, outcome, storageAlert, sent,
                 importState, downloadFrame>>

\* handleImportArchive, phase 1: the readings that are not in the library are
\* extracted and added; those whose extraction succeeded go on to phase 2
handleImportArchive ==
  /\ importState = NoImport
  /\ LET existingUrls == {sourceUrl(b) : b \in books}
         toImport == {n \in 1..MaxImports : ArchiveUrl(n) \notin existingUrls}
     IN /\ toImport # {}
        /\ \E extracted \in SUBSET toImport :
             /\ books' = books \cup {ImportedId(n) : n \in extracted}
             /\ importState' = IF extracted = {} THEN NoImport
                               ELSE [phase |-> "audio", queue |-> extracted]
  /\ UNCHANGED <<audioCache, progress, written, downloadStatusMap,
                 downloadProgressMap, totalStorageUsed, downloadAbortRef, download,
                 outcome, storageAlert, sent, downloadFrame>>

\* phase 2: the first chapter of the next imported book is synthesized and
\* stored; after the last one the storage figure is refreshed
ImportAudio ==
  \E ok \in BOOLEAN :
    LET n == CHOOSE m \in importState.queue : \A k \in importState.queue : m <= k
        cache1 == IF ok
                  THEN PutEntry(audioCache,
                                audioCacheKey(ImportedId(n), 0, DOWNLOAD_VOICE_ID),
                                ImportedAudio(n))
                  ELSE audioCache
    IN /\ importState.phase = "audio"
       /\ audioCache' = cache1
       /\ written' =
            IF ok
            THEN {w \in written : w.triple # Triple(ImportedId(n), 0, DOWNLOAD_VOICE_ID)}
                   \cup {[triple |-> Triple(ImportedId(n), 0, DOWNLOAD_VOICE_ID),
                          blob |-> ImportedAudio(n)]}
            ELSE written
       /\ IF importState.queue = {n}
          THEN /\ importState' = NoImport
               /\ totalStorageUsed' = getTotalAudioCacheSize(cache1)
          ELSE /\ importState' = [importState EXCEPT !.queue = @ \ {n}]
               /\ UNCHANGED totalStorageUsed
       /\ UNCHANGED <<books, progress, downloadStatusMap,
                      downloadProgressMap, downloadAbortRef, download, outcome,
                      storageAlert, sent, downloadFrame>>

\* handleSubmit of AddBookForm with the reading's url: the content is
\* extracted and the book is added under a new id
handleSubmit ==
  \E ok \in BOOLEAN :
    /\ \E k \in 1..MaxSubmits : FormId(k) \notin books
    /\ LET k == CHOOSE i \in 1..MaxSubmits :
                   FormId(i) \notin books /\ \A j \in 1..(i - 1) : FormId(j) \in books
       IN books' = IF ok THEN books \cup {FormId(k)} ELSE books
    /\ UNCHANGED <<audioCache, progress, written, downloadVars, downloadFrame>>

\* LibraryPage's state and refs
pageVars ==
  <<downloadStatusMap, downloadProgressMap, totalStorageUsed, downloadAbortRef,
    download, outcome, storageAlert, sent, importState, earlier, loaded>>

\* what a pipeline never touches
pipelineFrame ==
  <<chunkVars, ttsVars, playerVars, syncVars, op, ret, prevCache, progress,
    pageVars>>

Concurrency(kind) ==
  IF kind = "client" THEN TTS_CONCURRENCY ELSE CHAPTER_CONCURRENCY

\* the bound of the batch loop: toGenerate.length, texts.length
Items(p) == IF p.kind = "client" THEN Len(p.toGenerate) ELSE PipelineChapters

Min(a, b) == IF a < b THEN a ELSE b

\* batchIndices of the iteration at offset b
BatchIndices(p, b) ==
  IF p.kind = "client"
  THEN {p.toGenerate[k] : k \in (b + 1)..Min(b + TTS_CONCURRENCY, Len(p.toGenerate))}
  ELSE {j \in b..(Min(b + CHAPTER_CONCURRENCY, PipelineChapters) - 1) : j \notin p.skip}

\* Promise.allSettled of no promise resolves at once: the loop goes on to the
\* first offset whose batch has a request, or to its end
RECURSIVE SkipEmpty(_, _)
SkipEmpty(p, b) ==
  IF b >= Items(p) \/ BatchIndices(p, b) # {} THEN b
  ELSE SkipEmpty(p, b + Concurrency(p.kind))

\* the pipeline has ended: the modal shows the phase, the endpoint has
\* answered; the requests of a cancelled run that are in flight stay so
Ended(p, phase) ==
  [NoPipeline EXCEPT !.phase = phase, !.cancelled = p.cancelled,
                     !.cancelledBook = p.cancelledBook]

\* the iteration of the batch loop at offset b: the requests of the batch are
\* sent, or the loop is left
StartBatch(p, b) ==
  LET b1 == SkipEmpty(p, b)
  IN IF b1 >= Items(p)
     THEN Ended(p, IF p.kind = "client" THEN "done" ELSE "responded")
     ELSE [p EXCEPT !.pc = "batch", !.batch = b1,
                    !.inFlight = BatchIndices(p, b1),
                    !.started = @ \cup BatchIndices(p, b1)]

\* phase 2 of runPipeline up to its first batch
StartGenerating(p, bookId) ==
  LET missing(i) ==
        getCachedAudio(audioCache, audioCacheKey(bookId, i, DOWNLOAD_VOICE_ID)) = NoBlob
      toGenerate == SelectSeq([k \in 1..PipelineChapters |-> k - 1], missing)
  IN StartBatch([p EXCEPT !.book = bookId, !.toGenerate = toGenerate,
                          !.phase = "generating"], 0)

\* the download modal mounts and runPipeline() runs up to its first request
runPipeline ==
  LET p == [Ended(pipeline, "none") EXCEPT !.kind = "client"]
      book == FindByUrl(books, ArchiveUrl(1))
  IN /\ pipeline.pc = "idle"
     /\ pipeline' = IF book = NoBook
                    THEN [p EXCEPT !.pc = "extract", !.phase = "extracting"]
                    ELSE StartGenerating(p, book)
     /\ UNCHANGED <<books, audioCache, written, pipelineFrame>>

\* POST /api/extract is answered: the book is added under a new id and the
\* chapters are generated
ModalExtracted ==
  \E ok \in BOOLEAN :
    /\ pipeline.pc = "extract"
    /\ IF ~ok
       THEN pipeline' = Ended(pipeline, "error") /\ UNCHANGED books
       ELSE /\ books' = books \cup {ModalId}
            /\ pipeline' = StartGenerating(pipeline, ModalId)
    /\ UNCHANGED <<audioCache, written, pipelineFrame>>

\* handleCancel of the modal: abortRef is set and the modal is closed. The
\* run returns at its next check of abortRef, which follows the answer of
\* /api/extract or the settling of the batch in flight: it adds no book and
\* sends no request any more, and the requests it has in flight go on. One
\* cancelled run at a time is finishing.
handleCancel ==
  /\ pipeline.kind = "client"
  /\ pipeline.pc # "idle"
  /\ pipeline.cancelled = {}
  /\ pipeline' = [Ended(pipeline, "cancelled") EXCEPT
                    !.cancelled = pipeline.inFlight,
                    !.cancelledBook = IF pipeline.inFlight = {} THEN NoBook
                                      ELSE pipeline.book]
  /\ UNCHANGED <<books, audioCache, written, pipelineFrame>>

\* a request of the cancelled run settles: its audio is stored as well
CancelledSettles ==
  \E i \in pipeline.cancelled, ok \in BOOLEAN :
    LET triple == Triple(pipeline.cancelledBook, i, DOWNLOAD_VOICE_ID)
        key == audioCacheKey(pipeline.cancelledBook, i, DOWNLOAD_VOICE_ID)
        left == pipeline.cancelled \ {i}
    IN /\ audioCache' = IF ok THEN PutEntry(audioCache, key, ReadingAudio(i))
                        ELSE audioCache
       /\ written' =
            IF ok
            THEN {w \in written : w.triple # triple}
                   \cup {[triple |-> triple, blob |-> ReadingAudio(i)]}
            ELSE written
       /\ pipeline' = [pipeline EXCEPT
                         !.cancelled = left,
                         !.cancelledBook = IF left = {} THEN NoBook ELSE @]
       /\ UNCHANGED <<books, pipelineFrame>>

\* POST /api/tts-batch with the reading's chapters, skip being the chapters
\* the client has cached: the handler runs up to its first batch
POST ==
  LET cached == {i \in 0..(PipelineChapters - 1) :
                   getCachedAudio(audioCache,
                                  audioCacheKey(ModalId, i, DOWNLOAD_VOICE_ID)) # NoBlob}
  IN /\ pipeline.pc = "idle"
     /\ pipeline.cancelled = {}
     /\ pipeline' = StartBatch([NoPipeline EXCEPT !.kind = "endpoint",
                                                  !.book = ModalId, !.skip = cached], 0)
     /\ UNCHANGED <<books, audioCache, written, pipelineFrame>>

\* a loop that goes on as soon as one request of the batch has settled
AllSettled_Any(inFlight) == TRUE

\* await Promise.allSettled(...)
AllSettled(inFlight) == inFlight = {}

\* one request of the batch in flight settles, in any order: the client
\* stores the audio, the endpoint keeps it for its answer; when the batch has
\* settled the loop goes on
RequestSettles ==
  \E i \in pipeline.inFlight, ok \in BOOLEAN :
    LET p == [pipeline EXCEPT !.inFlight = @ \ {i},
                              !.results = IF ok THEN @ \cup {i} ELSE @]
        key == audioCacheKey(p.book, i, DOWNLOAD_VOICE_ID)
        stores == ok /\ p.kind = "client"
    IN /\ pipeline.pc = "batch"
       /\ audioCache' = IF stores THEN PutEntry(audioCache, key, ReadingAudio(i))
                        ELSE audioCache
       /\ written' =
            IF stores
            THEN {w \in written : w.triple # Triple(p.book, i, DOWNLOAD_VOICE_ID)}
                   \cup {[triple |-> Triple(p.book, i, DOWNLOAD_VOICE_ID),
                          blob |-> ReadingAudio(i)]}
            ELSE written
       /\ pipeline' =
            IF AllSettled(p.inFlight)
            THEN LET q == StartBatch(p, p.batch + Concurrency(p.kind))
                 IN IF q.pc = "batch"
                    THEN [q EXCEPT !.inFlight = @ \cup p.inFlight]
                    ELSE q
            ELSE p
       /\ UNCHANGED <<books, pipelineFrame>>

NextImport ==
  \/ handleSubmit
  \/ runPipeline
  \/ ModalExtracted
  \/ handleCancel
  \/ handleImportArchive
  \/ ImportAudio

NextPipeline ==
  \/ runPipeline
  \/ ModalExtracted
  \/ handleCancel
  \/ POST
  \/ RequestSettles
  \/ CancelledSettles

NextRestart ==
  \/ loadBooks
  \/ loadBooksEnd
  \/ handleDownload
  \/ DownloadAnswered
  \/ DownloadRetry
  \/ DownloadNextChapter
  \/ EarlierAnswered
  \/ EarlierRetry
  \/ EarlierNextChapter
  \/ handleRemoveDownload

NextDownload ==
  \/ handleBookAdded
  \/ handleDownload
  \/ DownloadAnswered
  \/ DownloadRetry
  \/ DownloadNextChapter
  \/ handleRemoveDownload
  \/ handleDelete
  \/ ChapterPlayed
  \/ handleImportArchive
  \/ ImportAudio

\* ------------------------------------------- lib/cloud-sync.ts: the restore

SENTINEL_KEY == "mornin-sync-initialized"

\* the key of SYNCED_LS_KEYS that holds the chosen voice
VOICE_KEY == "mornin-library-voice"

\* localStorage.getItem of a key that was never set
NoItem == "null"

\* number of times the app is loaded on the device
MaxPageLoads == 3

\* DEBOUNCE_MS and MAX_WAIT_MS, in seconds
DEBOUNCE_MS == 5

MAX_WAIT_MS == 30

\* a timer variable whose timer is not running
NotArmed == 0 - 1

\* number of PUT /api/sync requests that can be in flight together
MaxUploads == 2

\* the id of the bookmark the listener sets
BookmarkId == <<"m">>

\* interface SyncSnapshot, without its timestamp
SyncSnapshot(version, ls, bks, prog, bms) ==
  [version |-> version, localStorage |-> ls, books |-> bks, progress |-> prog,
   bookmarks |-> bms]

\* GET /api/sync answers 404
NoSnapshot == SyncSnapshot(0, NoItem, {}, {}, {})

\* the snapshots another device of the user may have uploaded: one book, with
\* or without a position in it, a bookmark and a chosen voice
Snapshots ==
  {SyncSnapshot(1, v, {Book.id}, p, m) :
     v \in {NoItem, "A"}, p \in {{}, {BookProgress(Book.id, 1, 0, FALSE)}},
     m \in {{}, {BookmarkId}}}

\* a snapshot that also carries the cached audio
collectAllData_WithAudio(ls, bks, prog, bms) ==
  [version |-> 1, localStorage |-> ls[VOICE_KEY], books |-> bks,
   progress |-> prog, bookmarks |-> bms, audioCache |-> audioCache]

\* collectAllData(): the synced items of localStorage and the three stores
collectAllData(ls, bks, prog, bms) == SyncSnapshot(1, ls[VOICE_KEY], bks, prog, bms)

NoRestore == [pc |-> "idle", ret |-> FALSE]

\* no mutation is waiting for a push
NoneUnpushed == [first |-> NotArmed, last |-> NotArmed]

\* the page is not loaded
NoShell == [pc |-> "none", mounted |-> FALSE]

\* no request of the sync has been answered yet
NotSettled == [ok |-> TRUE, how |-> "none"]

InitSync ==
  /\ localStorage = [k \in {SENTINEL_KEY, VOICE_KEY} |-> NoItem]
  /\ cloud = NoSnapshot
  /\ restore = NoRestore
  /\ pageLoads = 0
  /\ syncRequests = 0
  /\ bookmarks = {}
  /\ debounceTimer = NotArmed
  /\ maxWaitTimer = NotArmed
  /\ pendingSync = FALSE
  /\ listeners = 0
  /\ shell = NoShell
  /\ uploads = << >>
  /\ settled = NotSettled
  /\ unpushed = NoneUnpushed
  /\ pushCause = "none"

\* what the restore never touches
syncFrame ==
  <<chunkVars, ttsVars, playerVars, downloadVars, audioCache, op, ret, prevCache,
    written>>

\* PUT /api/sync of uploadSnapshot, sent by another device
OtherDevicePush ==
  /\ \E s \in Snapshots : s # cloud /\ cloud' = s
  /\ UNCHANGED <<localStorage, restore, pageLoads, syncRequests, books, progress,
                 bookmarks, schedulerVars, shell, uploads, settled, syncFrame>>

\* if (localStorage.getItem(SENTINEL_KEY)) return false
HasSentinel_Never(ls) == FALSE

HasSentinel(ls) == ls[SENTINEL_KEY] # NoItem /\ ls[SENTINEL_KEY] # ""

\* restoreIfNeeded() up to its first await, called by init() when ClientShell
\* mounts in a freshly loaded page: the module's scheduler state and the
\* handlers of the page before are gone
restoreIfNeeded ==
  /\ restore.pc = "idle"
  /\ pageLoads < MaxPageLoads
  /\ pageLoads' = pageLoads + 1
  /\ IF HasSentinel(localStorage)
     THEN /\ restore' = NoRestore
          /\ UNCHANGED syncRequests
     ELSE /\ restore' = [pc |-> "download", ret |-> FALSE]
          /\ syncRequests' = syncRequests + 1
  /\ shell' = [pc |-> "init", mounted |-> TRUE]
  /\ debounceTimer' = NotArmed
  /\ maxWaitTimer' = NotArmed
  /\ pendingSync' = FALSE
  /\ listeners' = 0
  /\ unpushed' = NoneUnpushed
  /\ pushCause' = "none"
  /\ UNCHANGED <<localStorage, cloud, books, progress, bookmarks, uploads, settled,
                 syncFrame>>

\* restoreFromCloud(snapshot): the items and records of the snapshot are put
restoreFromCloud(snapshot) ==
  /\ localStorage' =
       [k \in {SENTINEL_KEY, VOICE_KEY} |->
          IF k = SENTINEL_KEY THEN "now"
          ELSE IF snapshot.localStorage # NoItem THEN snapshot.localStorage
          ELSE localStorage[k]]
  /\ books' = books \cup snapshot.books
  /\ progress' =
       {q \in progress : \A p \in snapshot.progress : p.bookId # q.bookId}
         \cup snapshot.progress
  /\ bookmarks' = bookmarks \cup snapshot.bookmarks

\* a request helper without its try/catch: a failed fetch rejects the promise
Caught_Never(answered) == answered

\* try { ... } catch (err) { console.warn(...); return false / null }: the
\* promise of uploadSnapshot and of downloadSnapshot resolves whatever the
\* request did
Caught(answered) == TRUE

\* the request succeeded or failed, and the helper's promise settles
Settles(answered) ==
  [ok |-> answered, how |-> IF Caught(answered) THEN "resolved" ELSE "rejected"]

\* downloadSnapshot() has resolved, to the snapshot or to null (404, a failed
\* request); restoreIfNeeded goes on to its end
SnapshotDownloaded ==
  \E answered \in BOOLEAN :
    LET snapshot == IF answered THEN cloud ELSE NoSnapshot
    IN /\ restore.pc = "download"
       /\ IF snapshot # NoSnapshot
          THEN restoreFromCloud(snapshot)
          ELSE /\ localStorage' = [localStorage EXCEPT ![SENTINEL_KEY] = "now"]
               /\ UNCHANGED <<books, progress, bookmarks>>
       /\ restore' = [pc |-> "idle", ret |-> snapshot # NoSnapshot]
       /\ settled' = Settles(answered)
       /\ UNCHANGED <<cloud, pageLoads, syncRequests, schedulerVars, shell,
                      uploads, syncFrame>>

\* an init() that starts the listener whatever restoreIfNeeded returned
InitResumes_AlwaysListens ==
  /\ shell.pc = "init"
  /\ restore.pc = "idle"
  /\ shell' = [shell EXCEPT !.pc = IF restore.ret THEN "reload" ELSE "ready"]
  /\ listeners' = listeners + 1
  /\ UNCHANGED <<localStorage, cloud, restore, pageLoads, syncRequests, books,
                 progress, bookmarks, debounceTimer, maxWaitTimer, pendingSync,
                 unpushed, pushCause, uploads, settled, syncFrame>>

\* init() of ClientShell after "await restoreIfNeeded()": the page is
\* reloaded when data was restored, else startSyncListener() registers the
\* two handlers and its result is assigned to cleanup
InitResumes ==
  /\ shell.pc = "init"
  /\ restore.pc = "idle"
  /\ IF restore.ret
     THEN /\ shell' = [shell EXCEPT !.pc = "reload"]
          /\ UNCHANGED listeners
     ELSE /\ shell' = [shell EXCEPT !.pc = "ready"]
          /\ listeners' = listeners + 1
  /\ UNCHANGED <<localStorage, cloud, restore, pageLoads, syncRequests, books,
                 progress, bookmarks, debounceTimer, maxWaitTimer, pendingSync,
                 unpushed, pushCause, uploads, settled, syncFrame>>

\* the local stores restoreFromCloud writes to
LocalStores ==
  [localStorage |-> localStorage[VOICE_KEY], books |-> books,
   progress |-> progress, bookmarks |-> bookmarks]

\* restoreFromCloud(snapshot) on the stores d, as far as it gets when `loops`
\* of its three loops over the IndexedDB records have finished: the items of
\* localStorage are set first, then books, progress and bookmarks are put
Replay(snapshot, d, loops) ==
  [localStorage |->
     IF snapshot.localStorage # NoItem THEN snapshot.localStorage
     ELSE d.localStorage,
   books |-> IF loops >= 1 THEN d.books \cup snapshot.books ELSE d.books,
   progress |->
     IF loops >= 2
     THEN {q \in d.progress : \A p \in snapshot.progress : p.bookId # q.bookId}
            \cup snapshot.progress
     ELSE d.progress,
   bookmarks |->
     IF loops >= 3 THEN d.bookmarks \cup snapshot.bookmarks ELSE d.bookmarks]

\* the records the loop after `loops` finished loops would put
NextRecords(snapshot, loops) ==
  CASE loops = 0 -> snapshot.books
    [] loops = 1 -> snapshot.progress
    [] OTHER -> snapshot.bookmarks

\* a restoreIfNeeded that sets the sentinel before it replays the snapshot
RestoreThrows_SentinelFirst ==
  \E loops \in 0..2 :
    LET replayed == Replay(cloud, LocalStores, loops)
    IN /\ restore.pc = "download"
       /\ cloud # NoSnapshot
       /\ NextRecords(cloud, loops) # {}
       /\ localStorage' =
            [k \in {SENTINEL_KEY, VOICE_KEY} |->
               IF k = SENTINEL_KEY THEN "now" ELSE replayed.localStorage]
       /\ books' = replayed.books
       /\ progress' = replayed.progress
       /\ bookmarks' = replayed.bookmarks
       /\ restore' = [pc |-> "threw", ret |-> FALSE]
       /\ settled' = Settles(TRUE)
       /\ UNCHANGED <<cloud, pageLoads, syncRequests, schedulerVars, shell,
                      uploads, syncFrame>>

\* downloadSnapshot() has resolved to the snapshot and a put of
\* restoreFromCloud rejects (addBook, saveProgress or saveBookmark): the
\* records put before it stay, "await restoreFromCloud(snapshot)" throws and
\* restoreIfNeeded ends there, before its localStorage.setItem(SENTINEL_KEY)
RestoreThrows ==
  \E loops \in 0..2 :
    LET replayed == Replay(cloud, LocalStores, loops)
    IN /\ restore.pc = "download"
       /\ cloud # NoSnapshot
       /\ NextRecords(cloud, loops) # {}
       /\ localStorage' = [localStorage EXCEPT ![VOICE_KEY] = replayed.localStorage]
       /\ books' = replayed.books
       /\ progress' = replayed.progress
       /\ bookmarks' = replayed.bookmarks
       /\ restore' = [pc |-> "threw", ret |-> FALSE]
       /\ settled' = Settles(TRUE)
       /\ UNCHANGED <<cloud, pageLoads, syncRequests, schedulerVars, shell,
                      uploads, syncFrame>>

\* init() of ClientShell when "await restoreIfNeeded()" threw: the catch
\* block logs a warning, and startSyncListener() is called after the finally
InitCatches ==
  /\ shell.pc = "init"
  /\ restore.pc = "threw"
  /\ shell' = [shell EXCEPT !.pc = "ready"]
  /\ listeners' = listeners + 1
  /\ restore' = NoRestore
  /\ UNCHANGED <<localStorage, cloud, pageLoads, syncRequests, books, progress,
                 bookmarks, debounceTimer, maxWaitTimer, pendingSync, unpushed,
                 pushCause, uploads, settled, syncFrame>>

\* the teardown of ClientShell's effect, "cleanup?.()": when init() has
\* assigned it, the function startSyncListener returned removes the two
\* handlers and clears the two timers
Unmount ==
  /\ shell.mounted
  /\ shell' = [shell EXCEPT !.mounted = FALSE]
  /\ IF shell.pc = "ready"
     THEN /\ listeners' = listeners - 1
          /\ debounceTimer' = NotArmed
          /\ maxWaitTimer' = NotArmed
     ELSE UNCHANGED <<listeners, debounceTimer, maxWaitTimer>>
  /\ UNCHANGED <<localStorage, cloud, restore, pageLoads, syncRequests, books,
                 progress, bookmarks, pendingSync, unpushed, pushCause, uploads,
                 settled, syncFrame>>

\* syncNow(): the data is collected and the PUT request is sent
syncNow ==
  uploads' = Append(uploads, collectAllData(localStorage, books, progress, bookmarks))

\* doSync(), called by a timer or by the visibility handler
doSync(cause) ==
  /\ debounceTimer' = NotArmed
  /\ maxWaitTimer' = NotArmed
  /\ pendingSync' = FALSE
  /\ unpushed' = NoneUnpushed
  /\ pushCause' = cause
  /\ syncNow

\* a scheduler that restarts both timers on every change
scheduleSyncOnChange_RestartBoth ==
  /\ debounceTimer' = DEBOUNCE_MS
  /\ pendingSync' = TRUE
  /\ maxWaitTimer' = MAX_WAIT_MS

\* scheduleSyncOnChange()
scheduleSyncOnChange ==
  /\ debounceTimer' = DEBOUNCE_MS
  /\ pendingSync' = TRUE
  /\ maxWaitTimer' = IF ~pendingSync THEN MAX_WAIT_MS ELSE maxWaitTimer

\* notifyDataChanged(): "mornin-data-changed" is dispatched and the handler
\* of startSyncListener runs; an event that has no handler changes nothing
notifyDataChanged ==
  /\ listeners > 0
  /\ pendingSync \/ Len(uploads) < MaxUploads
  /\ scheduleSyncOnChange
  /\ unpushed' = [first |-> IF unpushed.first = NotArmed THEN 0 ELSE unpushed.first,
                  last |-> 0]
  /\ UNCHANGED <<localStorage, cloud, restore, pageLoads, syncRequests, books,
                 progress, bookmarks, listeners, pushCause, shell, uploads, settled,
                 syncFrame>>

\* the debounce timer fires
DebounceFires ==
  /\ debounceTimer = 0
  /\ doSync("debounce")
  /\ UNCHANGED <<localStorage, cloud, restore, pageLoads, syncRequests, books,
                 progress, bookmarks, listeners, shell, settled, syncFrame>>

\* the max-wait timer fires
MaxWaitFires ==
  /\ maxWaitTimer = 0
  /\ doSync("maxWait")
  /\ UNCHANGED <<localStorage, cloud, restore, pageLoads, syncRequests, books,
                 progress, bookmarks, listeners, shell, settled, syncFrame>>

\* a second passes; a timer that is due fires before the next second
Elapsed(t) == IF t = NotArmed THEN NotArmed ELSE t - 1

Aged(t) == IF t = NotArmed \/ t > MAX_WAIT_MS THEN t ELSE t + 1

SecondPasses ==
  /\ debounceTimer # 0
  /\ maxWaitTimer # 0
  /\ debounceTimer' = Elapsed(debounceTimer)
  /\ maxWaitTimer' = Elapsed(maxWaitTimer)
  /\ unpushed' = [first |-> Aged(unpushed.first), last |-> Aged(unpushed.last)]
  /\ <<debounceTimer, maxWaitTimer, unpushed>>' # <<debounceTimer, maxWaitTimer, unpushed>>
  /\ UNCHANGED <<localStorage, cloud, restore, pageLoads, syncRequests, books,
                 progress, bookmarks, pendingSync, listeners, pushCause, shell,
                 uploads, settled, syncFrame>>

\* a visibility handler that pushes whenever the app is hidden
ShouldFlush_Always(state, pending) == state = "hidden"

\* if (document.visibilityState === "hidden" && pendingSync)
ShouldFlush(state, pending) == state = "hidden" /\ pending

\* the player's state other than document.visibilityState
playerRest ==
  <<isActive, isPlaying, isLoading, currentBookId, currentChapter, voice,
    bookRef, isLoadingChapterRef, nextChapterBlobUrlRef, currentBlobUrlRef,
    audio, loads, prefetches, retryPlay, gestures, run, completedBook, preview,
    clicks>>

\* "visibilitychange" with the player idle: visHandler of startSyncListener
VisibilityChange ==
  /\ shell.pc # "none"
  /\ visibilityState' = IF visibilityState = "visible" THEN "hidden" ELSE "visible"
  /\ IF listeners > 0 /\ ShouldFlush(visibilityState', pendingSync)
     THEN doSync("hidden")
     ELSE UNCHANGED <<debounceTimer, maxWaitTimer, pendingSync, unpushed, pushCause,
                      uploads>>
  /\ UNCHANGED <<localStorage, cloud, restore, pageLoads, syncRequests, books,
                 progress, bookmarks, listeners, shell, settled, chunkVars, ttsVars,
                 downloadVars, audioCache, op, ret, prevCache, written, playerRest>>

\* doSync's call of syncNow() at a time when no other push is in flight
PushNow ==
  /\ shell.pc = "ready"
  /\ uploads = << >>
  /\ syncNow
  /\ UNCHANGED <<localStorage, cloud, restore, pageLoads, syncRequests, books,
                 progress, bookmarks, schedulerVars, shell, settled, syncFrame>>

\* uploadSnapshot: the PUT request of one of the pushes in flight is
\* answered or fails, and syncNow's promise resolves to res.ok or to false
UploadAnswered ==
  \E i \in 1..Len(uploads), answered \in BOOLEAN :
    /\ cloud' = IF answered THEN uploads[i] ELSE cloud
    /\ uploads' = SubSeq(uploads, 1, i - 1) \o SubSeq(uploads, i + 1, Len(uploads))
    /\ settled' = Settles(answered)
    /\ UNCHANGED <<localStorage, restore, pageLoads, syncRequests, books, progress,
                   bookmarks, schedulerVars, shell, syncFrame>>

\* saveBookmark(bookmark)
SaveBookmark ==
  /\ BookmarkId \notin bookmarks
  /\ bookmarks' = bookmarks \cup {BookmarkId}
  /\ UNCHANGED <<localStorage, cloud, restore, pageLoads, syncRequests, books,
                 progress, schedulerVars, shell, uploads, settled, syncFrame>>

NextSync ==
  \/ restoreIfNeeded
  \/ SnapshotDownloaded
  \/ InitResumes
  \/ OtherDevicePush
  \/ AddBook
  \/ SaveProgress
  \/ DeleteBook

NextPush ==
  \/ restoreIfNeeded
  \/ SnapshotDownloaded
  \/ InitResumes
  \/ OtherDevicePush
  \/ handleBookAdded
  \/ SaveBookmark
  \/ ChapterPlayed
  \/ PushNow
  \/ UploadAnswered

NextRestore ==
  \/ restoreIfNeeded
  \/ SnapshotDownloaded
  \/ RestoreThrows
  \/ InitResumes
  \/ InitCatches
  \/ OtherDevicePush
  \/ notifyDataChanged
  \/ VisibilityChange
  \/ UploadAnswered

NextSchedule ==
  \/ restoreIfNeeded
  \/ SnapshotDownloaded
  \/ InitResumes
  \/ Unmount
  \/ notifyDataChanged
  \/ SecondPasses
  \/ DebounceFires
  \/ MaxWaitFires
  \/ VisibilityChange
  \/ UploadAnswered

\* ------------------------------------------------------------ specifications

Init == InitChunk /\ InitStore /\ InitPlayer /\ InitDownload /\ InitSync

SpecChunk == Init /\ [][NextChunk]_vars

SpecTTS == Init /\ [][NextTTS]_vars

SpecStore == Init /\ [][NextStore]_vars

SpecPlayer == Init /\ [][NextPlayer]_vars

SpecPreview == Init /\ [][NextPreview]_vars

SpecDownload == Init /\ [][NextDownload]_vars

SpecImport == Init /\ [][NextImport]_vars

SpecPipeline == Init /\ [][NextPipeline]_vars

\* the library page opens on a library that holds the book
InitRestart ==
  /\ InitChunk /\ InitPlayer /\ InitSync
  /\ books = {Book.id}
  /\ audioCache = {}
  /\ progress = {}
  /\ op = Op("none", << >>, << >>)
  /\ ret = Void
  /\ prevCache = {}
  /\ written = {}
  /\ pipeline = NoPipeline
  /\ earlier = NoEarlier
  /\ loaded = BooksShown
  /\ downloadStatusMap = "none"
  /\ downloadProgressMap = NoProgress
  /\ totalStorageUsed = 0
  /\ downloadAbortRef = FALSE
  /\ download = NoDownload
  /\ outcome = [i \in 0..(NumChapters - 1) |-> "pending"]
  /\ storageAlert = FALSE
  /\ sent = NothingSent
  /\ importState = NoImport

SpecRestart == InitRestart /\ [][NextRestart]_vars

SpecSync == Init /\ [][NextSync]_vars

SpecPush == Init /\ [][NextPush]_vars

SpecSchedule == Init /\ [][NextSchedule]_vars

SpecRestore == Init /\ [][NextRestore]_vars

\* ---------------------------------------------------- segmentation claims

\* the words of s, whitespace normalized: its maximal runs of non-whitespace
RECURSIVE WordsOf(_, _)
WordsOf(s, cur) ==
  IF s = << >> THEN (IF cur = << >> THEN << >> ELSE <<cur>>)
  ELSE IF IsWs(Head(s))
       THEN (IF cur = << >> THEN << >> ELSE <<cur>>) \o WordsOf(Tail(s), << >>)
       ELSE WordsOf(Tail(s), Append(cur, Head(s)))

\* the chapters' texts in list order, separated by a space
RECURSIVE ChapterTexts(_)
ChapterTexts(chs) ==
  IF chs = << >> THEN << >> ELSE Head(chs).text \o <<sp>> \o ChapterTexts(Tail(chs))

RECURSIVE IsSubsequence(_, _)
IsSubsequence(a, b) ==
  IF a = << >> THEN TRUE
  ELSE IF b = << >> THEN FALSE
  ELSE IF Head(a) = Head(b) THEN IsSubsequence(Tail(a), Tail(b))
  ELSE IsSubsequence(a, Tail(b))

\* C1: every chapter returned by chunkIntoChapters has wordCount <= 580,
\* except a single chapter produced from short input
C1_SizeBound ==
  cpc = "done" =>
    \A k \in 1..Len(chapters) :
      \/ chapters[k].wordCount <= MAX_CHAPTER_WORDS
      \/ Len(chapters) = 1 /\ ChunkPath(InputText) = "short"

\* C2: the chapters returned carry index 0, 1, ..., n-1 in list order
C2_ContiguousIndices ==
  cpc = "done" => \A k \in 1..Len(chapters) : chapters[k].index = k - 1

\* a text whose post-pass split an oversized chapter, leaving three or more
C2_Witness ==
  /\ cpc = "done"
  /\ Len(chapters) >= 3
  /\ Len(chapters) > Len(PreChapters(InputText))
  /\ \E k \in 1..Len(PreChapters(InputText)) :
       PreChapters(InputText)[k].wordCount > MAX_CHAPTER_WORDS

\* C3 as stated: the chapters' words are the input's words, none dropped,
\* whatever the size of the marker sections and of the text before them
C3_Reconstruction ==
  cpc = "done" =>
    WordsOf(ChapterTexts(chapters), << >>) = WordsOf(InputText, << >>)

\* the marker split discards nothing: every section is above the floor and
\* the text before the first marker is empty or above the preface minimum
NothingDiscarded(s) ==
  LET markers == FindMarkers(s, 1)
  IN /\ Len(MarkerSections(s, markers, 1, << >>)) = Len(markers)
     /\ \/ Trim(SubSeq(s, 1, markers[1].index - 1)) = << >>
        \/ WordCount(Trim(SubSeq(s, 1, markers[1].index - 1))) > MIN_PREFACE_WORDS

\* C3 amended: the chapters' words are a subsequence of the input's words
\* (nothing duplicated or reordered), and all of them unless the marker split
\* discarded a section of at most 20 words or a preface of at most 50 words
C3_ReconstructionAmended ==
  cpc = "done" =>
    /\ IsSubsequence(WordsOf(ChapterTexts(chapters), << >>),
                     WordsOf(InputText, << >>))
    /\ (ChunkPath(InputText) = "marker" => NothingDiscarded(InputText))
         => WordsOf(ChapterTexts(chapters), << >>) = WordsOf(InputText, << >>)

\* a marker split with a preface and two sections, reproduced in full
C3_Witness ==
  /\ cpc = "done"
  /\ ChunkPath(InputText) = "marker"
  /\ NothingDiscarded(InputText)
  /\ chapters[1].title = TitlePreface
  /\ Len(chapters) >= 3

\* C4: chunkIntoChapters applied to empty input returns an empty chapter list
C4_EmptyInput ==
  (cpc = "done" /\ InputText = << >>) => chapters = << >>

\* C5: a 1,200-word chapter passed through the post-pass becomes at least 3
\* sub-chapters, none above 580 words, the last one of at least 150 words
\* unless it was merged into its predecessor
C5_ScenarioA ==
  cpc = "done" =>
    \A k \in 1..Len(PreChapters(InputText)) :
      PreChapters(InputText)[k].wordCount = 1200 =>
        LET before == EnforceFrom(<< >>, SubSeq(PreChapters(InputText), 1, k - 1))
            after == EnforceChapter(before, PreChapters(InputText)[k])
        IN /\ Len(after) >= Len(before) + 3
           /\ \A j \in (Len(before) + 1)..Len(after) :
                after[j].wordCount <= MAX_CHAPTER_WORDS
           /\ after[Len(after)].wordCount >= MIN_WORDS

\* ------------------------------------------------------ normalization claims

\* the chapter the last request was made for
RequestedChapter == chapters[reqChapter + 1]

\* C6: a chapter within the 580-word cap, once passed through preprocessForTTS,
\* is sent with at most 600 words and is not rejected as oversized
C6_RequestUnderCeiling ==
  (reqChapter >= 0 /\ RequestedChapter.wordCount <= MAX_CHAPTER_WORDS) =>
    /\ WordCount(reqText) <= MAX_WORDS
    /\ response # "Text too long"

IsWord(t) == t.c \in {"w", "I"}

\* already-clean English prose: words, each full stop right after a word, single
\* spaces between words, and line breaks (at most one blank line) between lines
IsCleanProse(s) ==
  /\ s # << >>
  /\ IsWord(s[1])
  /\ IsWord(s[Len(s)]) \/ s[Len(s)] = dot
  /\ \A k \in 2..Len(s) :
       /\ s[k].c \in {"w", "I", "dot", "sp", "nl"}
       /\ s[k] = dot => IsWord(s[k - 1])
       /\ s[k] = sp => (s[k - 1] = dot \/ IsWord(s[k - 1])) /\ IsWord(s[k + 1])
       /\ s[k] = nl => /\ s[k - 1] # sp
                       /\ s[k + 1] # sp /\ s[k + 1] # dot
                       /\ ~(s[k - 1] = nl /\ s[k + 1] = nl)

\* C7: preprocessForTTS is idempotent on already-clean English prose, also on
\* multi-line input with consecutive single line breaks
C7_Idempotent ==
  (reqChapter >= 0 /\ IsCleanProse(RequestedChapter.text)) =>
    preprocessForTTS(reqText) = reqText

\* -------------------------------------------------------------- store claims

\* C8: the blob last set for a (bookId, chapterIndex, voiceId) triple is what
\* getCachedAudio returns for its key until the next set on it or a delete
\* covering it, whatever was written to other keys; a key holds one entry
C8_CacheRoundTrip ==
  /\ \A w \in written : getCachedAudio(audioCache, KeyOf(w.triple)) = w.blob
  /\ \A e1, e2 \in audioCache : e1.key = e2.key => e1 = e2
  /\ op.name = "getCachedAudio" =>
       \A w \in written : KeyOf(w.triple) = op.key => ret = BlobOrNull(w.blob)

\* two voices of one chapter hold different blobs, one of them set a second
\* time, and the one asked for is returned
C8_Witness ==
  /\ op.name = "getCachedAudio"
  /\ ret.kind = "blob"
  /\ \E w1, w2 \in written :
       /\ w1.triple.bookId = w2.triple.bookId
       /\ w1.triple.chapterIndex = w2.triple.chapterIndex
       /\ w1.triple.voiceId # w2.triple.voiceId
       /\ w1.blob # w2.blob
       /\ KeyOf(w1.triple) = op.key

ExpectedLog ==
  <<"Idle", "Loading", "Playing", "Loading", "Playing", "Loading", "Playing",
    "Completed">>

IsPrefix(a, b) == Len(a) <= Len(b) /\ SubSeq(b, 1, Len(a)) = a

\* the audio loaded for the last chapter of the book has played to its end
LastChapterEnded ==
  audio.ended /\ currentChapter = NumChapters - 1 /\ ~isLoading

\* C10: a 3-chapter book played from chapter 0 with no interaction and no
\* failure goes Loading, Playing once per chapter, plays the silent unlock clip
\* for the first chapter only, and once chapter 2 has ended is Completed with
\* saved progress currentChapter = 3, completed = true
C10_ScenarioB ==
  run.clean =>
    /\ IsPrefix(run.log, ExpectedLog)
    /\ run.unlocks = 1
    /\ LastChapterEnded =>
         /\ run.log = ExpectedLog
         /\ EngineState = "Completed"
         /\ {q \in progress : q.bookId = Book.id}
              = {BookProgress(Book.id, 3, 0, TRUE)}

\* an unattended run that reached the end of chapter 2, its second chapter
\* taken from the pre-buffered URL
C10_Witness ==
  /\ run.clean
  /\ LastChapterEnded
  /\ Len(run.log) = Len(ExpectedLog)
  /\ Cardinality(audioCache) = NumChapters

\* C11: once a book's progress has been saved with completed = true, and
\* until the user starts the book again (playChapter, next, previous, resume),
\* the stored progress of that book stays completed at the chapter count:
\* close(), the save on visibility loss and the periodic save do not write
\* completed = false or a smaller chapter index over it.
C11_CompletedIsTerminal ==
  completedBook # NoBook =>
    \E q \in progress : /\ q.bookId = completedBook
                         /\ q.completed
                         /\ q.currentChapter >= NumChapters

EngineAudible == IsChapterAudio(audio) /\ ~audio.paused

PreviewAudible == preview.hasAudio /\ ~preview.paused

\* a load has called audio.play() and has not reached its dispatch of
\* "library-audio-play" yet
NotificationPending == \E t \in loads : t.pc = "play"

\* C12: once the notification has been delivered, the engine and the preview
\* are never both playing: every start of
\* engine playback stops the preview and every start of preview playback
\* (first play and resuming a paused preview) pauses the engine.
C12_MutualExclusion ==
  ~NotificationPending => ~(EngineAudible /\ PreviewAudible)

LoadKey(t) == audioCacheKey(Book.id, t.chapter, t.voice)

\* the load took its audio from the cache or from fetchAudio, not from the
\* pre-buffered URL
Requested(t) == t.req # NoRequest

\* C13: loadAndPlayChapter requests synthesis for (book, chapter, voice) only
\* when the cache holds no entry for that triple at the time of the check, and
\* a hit makes no request; the request carries the normalized chapter text;
\* the synthesized blob is in the cache under that triple when it is played.
C13_SynthesisOnlyOnMiss ==
  [][/\ \A t \in loads' \ loads :
          t.pc = "fetch" => getCachedAudio(audioCache, LoadKey(t)) = NoBlob
     /\ \A t \in loads \ loads' :
          t.pc = "cache" /\ getCachedAudio(audioCache, LoadKey(t)) # NoBlob
            => \A u \in loads' \ loads : u.pc # "fetch" /\ ~Requested(u)
     /\ \A t \in loads' \ loads :
          /\ t.pc = "fetch" =>
               t.req = [text |-> preprocessForTTS(Book.chapters[t.chapter + 1]),
                        voice |-> t.voice]
          /\ /\ t.pc \in {"progress", "play"}
             /\ \E u \in loads \ loads' :
                  u.pc = "fetch" /\ u.chapter = t.chapter /\ u.req = t.req
             => /\ audio'.src = Synth(t.chapter, t.voice)
                /\ getCachedAudio(audioCache', LoadKey(t)) = audio'.src
    ]_vars

C13_Witness ==
  /\ \E t \in loads : t.pc = "play" /\ Requested(t) /\ t.ok
  /\ \E e \in audioCache : e.blob = audio.src
  /\ ~audio.paused

SavedPositions(chapter) ==
  {q \in progress : /\ q.bookId = Book.id
                    /\ q.currentChapter = chapter
                    /\ q.currentTime > 0}

\* C14: when loadAndPlayChapter starts a chapter's audio, an auto-advance
\* starts it at time 0 whatever progress is stored, and a manual navigation
\* (playChapter, nextChapter, prevChapter) starts it at the stored time when
\* the stored progress names that chapter with a positive time.
C14_RestoreOnlyOnManual ==
  [][\A t \in loads' \ loads :
       t.pc = "play" =>
         IF t.auto
         THEN audio'.currentTime = 0
         ELSE \A q \in SavedPositions(t.chapter) :
                audio'.currentTime = q.currentTime
    ]_vars

C14_Witness ==
  \E t \in loads :
    /\ t.pc = "play" /\ t.auto /\ t.ok
    /\ audio.currentTime = 0 /\ ~audio.paused
    /\ SavedPositions(t.chapter) # {}

\* the user started playback once and has not touched the player since
Unattended == gestures = 1

\* C15: in an unattended session, after an auto-advance failed (the next
\* chapter's audio could not be obtained or started) the engine is active, not
\* loading, at a chapter of the book; and when the app next becomes visible
\* that chapter's audio is playing.
C15_RetryAfterFailedAdvance ==
  [][/\ Unattended' /\ retryPlay' /\ loads' = {} =>
          isActive' /\ ~isLoading' /\ currentChapter' \in 0..(NumChapters - 1)
     /\ /\ Unattended' /\ retryPlay
        /\ visibilityState = "hidden" /\ visibilityState' = "visible"
        => /\ audio'.src = Synth(currentChapter', voice)
           /\ ~audio'.paused
    ]_vars

\* the progress record a save of the engine's position writes
PositionSaved(prog) ==
  \E q \in prog : /\ q.bookId = currentBookId
                   /\ q.currentChapter = currentChapter
                   /\ q.currentTime = audio.currentTime

HasPosition == currentBookId # NoBook /\ currentChapter # NoChapter

\* the steps that write progress: the interval timer, the app becoming
\* hidden, close()
TimerStep ==
  /\ progress' # progress
  /\ audio' = audio /\ visibilityState' = visibilityState
  /\ isActive' = isActive

HiddenStep == visibilityState = "visible" /\ visibilityState' = "hidden"

CloseStep == isActive /\ ~isActive'

\* C16: while a chapter is playing the 5-second timer is running, and each of
\* its writes, the write when the app becomes hidden and the write of close()
\* persist (book, chapter index, current time); the timer writes nothing
\* while the engine is paused or idle.
C16_ProgressPersisted ==
  [][/\ (isActive /\ EngineAudible /\ ~Busy)' => (isPlaying /\ HasPosition)'
     /\ TimerStep => isActive /\ isPlaying /\ PositionSaved(progress')
     /\ HiddenStep /\ HasPosition => PositionSaved(progress')
     /\ CloseStep /\ HasPosition => PositionSaved(progress')
    ]_vars

\* the cache entries of the book's chapter i under the download voice
DownloadEntries(store, i) ==
  {e \in store : e.key = audioCacheKey(Book.id, i, DOWNLOAD_VOICE_ID)}

ChapterIndices == 0..(NumChapters - 1)

\* a run of handleDownload that was not cancelled reaches its end in this step
RunCompletes == download.pc # "idle" /\ download'.pc = "idle" /\ ~downloadAbortRef'

RunStep == download.pc # "idle" /\ download' # download

\* the chapter the running download is working on
CurrentKey ==
  audioCacheKey(Book.id, download.toGenerate[download.pos], DOWNLOAD_VOICE_ID)

\* C18: after the book's abort flag is set the run begins no further chapter;
\* setting the flag does not interrupt the run, whose request in flight is
\* answered and stored; no request sent after the flag was set stores
\* anything.
C18_CooperativeCancel ==
  [][/\ download.pc = "chapterDelay" /\ download'.pc = "fetch" => ~downloadAbortRef
     /\ ~downloadAbortRef /\ downloadAbortRef' => download' = download
     /\ RunStep /\ audioCache' # audioCache => ~download.late]_vars

\* C18, amended: after the book's abort flag is set the run begins no further
\* chapter; setting the flag does not interrupt the run, which goes on with
\* the attempts of the chapter it is working on and stores that chapter's
\* audio; the run that finds the flag set at the top of the loop ends there
\* and writes nothing to the cache.
C18_CooperativeCancelAmended ==
  [][/\ download.pc = "chapterDelay" /\ download'.pc = "fetch" => ~downloadAbortRef
     /\ ~downloadAbortRef /\ downloadAbortRef' => download' = download
     /\ RunStep /\ downloadAbortRef
          => /\ \A e \in audioCache' \ audioCache : e.key = CurrentKey
             /\ download'.pc = "fetch" => download'.pos = download.pos
     /\ RunStep /\ downloadAbortRef /\ download.pc = "chapterDelay"
          => download'.pc = "idle" /\ audioCache' = audioCache]_vars

\* the book was deleted while its first chapter was being generated: the
\* chapter's audio was stored after the delete, and the run has ended without
\* beginning the second chapter
C18_Witness ==
  /\ download.pc = "idle"
  /\ downloadAbortRef
  /\ Book.id \notin books
  /\ outcome[0] \in {"audio", "cleaned", "placeholder"}
  /\ DownloadEntries(audioCache, 0) # {}
  /\ outcome[1] = "pending"

\* C19: no download starts while the cached audio has reached
\* MAX_DOWNLOAD_BYTES, and a running download stores no chapter that takes the
\* cached audio over MAX_DOWNLOAD_BYTES and removes none it has stored.
C19_StorageCeiling ==
  [][/\ download.pc = "idle" /\ download'.pc = "fetch"
          => getTotalAudioCacheSize(audioCache) < MAX_DOWNLOAD_BYTES
     /\ RunStep /\ audioCache' # audioCache
          => /\ getTotalAudioCacheSize(audioCache') <= MAX_DOWNLOAD_BYTES
             /\ \A e \in audioCache : \E f \in audioCache' : f.key = e.key]_vars

\* a call of restoreIfNeeded returns in this step
RestoreReturns == restore.pc = "download" /\ restore'.pc = "idle"

\* C20: on a device without the sentinel, restoreIfNeeded with a remote
\* snapshot leaves the snapshot's book in the local store and the sentinel
\* set; without a remote snapshot it returns false and sets the sentinel; a
\* call made when the sentinel is set sends no request and changes nothing
\* on the device, so the device sends one request at most.
C20_RestoreOnce ==
  [][/\ RestoreReturns /\ restore'.ret
          => /\ Book.id \in books'
             /\ HasSentinel(localStorage')
     /\ RestoreReturns /\ ~restore'.ret
          => /\ HasSentinel(localStorage')
             /\ books' = books /\ progress' = progress
     /\ HasSentinel(localStorage) /\ pageLoads' # pageLoads
          => /\ syncRequests' = syncRequests
             /\ restore'.pc = "idle"
             /\ UNCHANGED <<localStorage, cloud, storeVars>>
     /\ syncRequests' <= 1]_vars

\* the book and the voice of the snapshot were restored by the first load of
\* the app, and the app has been loaded again since
C20_Witness ==
  /\ Book.id \in books
  /\ localStorage[VOICE_KEY] = "A"
  /\ HasSentinel(localStorage)
  /\ pageLoads >= 2
  /\ syncRequests = 1
  /\ restore.pc = "idle"

\* the running download has sent the request of its chapter in this step
SendsRequest == download'.pc = "fetch" /\ download' # download

\* the running download's request is answered in this step
AnswerStep == download.pc = "fetch" /\ download' # download

\* the chapter the download works on after this step
NextChapterIndex == download'.toGenerate[download'.pos]

\* C27: per chapter of a download, at most MAX_RETRIES requests are sent on
\* the normalized text, the retry delay passes between two of them; the
\* request on the aggressively cleaned text is sent only after the last of
\* those failed, once; the placeholder's request only after that one failed;
\* a request that succeeds writes the chapter's entry and ends the chapter's
\* attempts, so a chapter gets at most 5 requests and at most one write.
C27_FallbackLadder ==
  [][/\ \A i \in ChapterIndices :
          sent'[i].requests <= MAX_RETRIES + 2 /\ sent'[i].stores <= 1
     /\ SendsRequest
          => /\ download'.req.text = TierText(download'.tier, NextChapterIndex)
             /\ download'.tier = 1
                  => /\ sent'[NextChapterIndex].requests = download'.attempt
                     /\ download'.attempt <= MAX_RETRIES
                     /\ download'.attempt > 1 => download.pc = "retryDelay"
             /\ download'.tier = 2
                  => /\ sent'[NextChapterIndex].requests = MAX_RETRIES + 1
                     /\ download.pc = "fetch" /\ download.tier = 1
                     /\ download.attempt = MAX_RETRIES
                     /\ audioCache' = audioCache
             /\ download'.tier = 3
                  => /\ sent'[NextChapterIndex].requests = MAX_RETRIES + 2
                     /\ download.pc = "fetch" /\ download.tier = 2
                     /\ audioCache' = audioCache
             /\ sent'[NextChapterIndex].stores = 0
     /\ AnswerStep /\ audioCache' # audioCache
          => /\ download'.pc \in {"chapterDelay", "idle"}
             /\ sent'[download.toGenerate[download.pos]].stores = 1
     /\ AnswerStep /\ download.tier = 1 /\ download.attempt < MAX_RETRIES
          /\ audioCache' = audioCache
          => download'.pc = "retryDelay"
    ]_vars

\* a chapter whose three requests on the normalized text and whose request on
\* the cleaned text failed got its placeholder with the fifth request, and
\* another chapter got its audio with the first
C27_Witness ==
  /\ \E i \in ChapterIndices :
       /\ sent[i] = [requests |-> MAX_RETRIES + 2, stores |-> 1]
       /\ outcome[i] = "placeholder"
  /\ \E i \in ChapterIndices :
       /\ sent[i] = [requests |-> 1, stores |-> 1]
       /\ outcome[i] = "audio"

\* the remove button of the downloaded book is pressed in this step
RemoveStep ==
  /\ downloadStatusMap = "downloaded"
  /\ books' = books
  /\ downloadAbortRef' # downloadAbortRef \/ downloadStatusMap' # downloadStatusMap

\* the storage figure after freed bytes were returned to the handler
StorageAfter(freed) ==
  IF totalStorageUsed - freed > 0 THEN totalStorageUsed - freed ELSE 0

\* C25: removing a book's download deletes every cache entry of the book
\* under the download voice, the bytes freed that are returned to the
\* storage accounting are the sum of the sizes of the entries that were
\* deleted, and afterwards the book's download status is "none".
C25_RemoveDownload ==
  [][RemoveStep
       => /\ \A i \in ChapterIndices : DownloadEntries(audioCache', i) = {}
          /\ audioCache' \subseteq audioCache
          /\ totalStorageUsed' = StorageAfter(SumSizes(audioCache \ audioCache'))
          /\ downloadStatusMap' = "none"]_vars

\* the download of the book was removed while the cache also held an
\* imported book's chapter: the import's entry is left, and the storage
\* figure has gone down to its size
C25_Witness ==
  /\ Book.id \in books
  /\ downloadAbortRef
  /\ download.pc = "idle"
  /\ \A i \in ChapterIndices : outcome[i] = "audio"
  /\ BookEntries(audioCache, Book.id) = {}
  /\ audioCache # {}
  /\ totalStorageUsed = getTotalAudioCacheSize(audioCache)
  /\ downloadStatusMap = "none"

\* no download and no import is suspended at an await
Settled == download.pc = "idle" /\ importState = NoImport

\* C24: once the book has been deleted and the work that was in flight has
\* settled, the audio cache holds no entry of the deleted book.
C24_NoOrphanAfterDelete ==
  Book.id \notin books /\ Settled => BookEntries(audioCache, Book.id) = {}

\* a PUT /api/sync request of this device is answered or fails in this step
UploadSettles == Len(uploads') < Len(uploads)

\* what the sync setting aside, the device holds: the stores, the synced
\* preference, the player and the downloads
LocalData ==
  <<books, progress, bookmarks, localStorage[VOICE_KEY], audioCache, written,
    playerVars, downloadVars>>

PushStarts == Len(uploads') > Len(uploads)

\* the stores and items a snapshot is made of
SyncedData == <<localStorage[VOICE_KEY], books, progress, bookmarks>>

\* what neither collect, push nor restore may touch
UnsyncedData == <<audioCache, written, playerVars, downloadVars>>

\* C26: a collected snapshot consists of the preferences, the books, the
\* progress and the bookmarks of the device and nothing else; a restore
\* writes the snapshot's preferences, books, progress and bookmarks; collect,
\* push and restore leave the audio cache unchanged.
C26_SnapshotFrame ==
  [][/\ PushStarts
          => /\ LET snapshot == uploads'[Len(uploads')]
                IN /\ DOMAIN snapshot =
                        {"version", "localStorage", "books", "progress", "bookmarks"}
                   /\ <<snapshot.localStorage, snapshot.books, snapshot.progress,
                        snapshot.bookmarks>> = SyncedData
             /\ UNCHANGED <<SyncedData, UnsyncedData>>
     /\ UploadSettles => UNCHANGED <<SyncedData, UnsyncedData>>
     /\ RestoreReturns
          => /\ UNCHANGED UnsyncedData
             /\ restore'.ret
                  => /\ cloud.books \subseteq books'
                     /\ cloud.progress \subseteq progress'
                     /\ cloud.bookmarks \subseteq bookmarks'
                     /\ cloud.localStorage # NoItem
                          => localStorage'[VOICE_KEY] = cloud.localStorage
    ]_vars

\* a device that held cached audio restored the snapshot of another device
\* (the voice, the book, a bookmark) and has collected a snapshot of its own
\* since: the cached audio is still there and the snapshot in flight holds the
\* restored data
C26_Witness ==
  /\ localStorage[VOICE_KEY] = "A"
  /\ audioCache =
       {[key |-> audioCacheKey(Book.id, 0, LISTENING_VOICE_ID),
         blob |-> Synth(0, LISTENING_VOICE_ID)]}
  /\ uploads = <<SyncSnapshot(1, "A", {Book.id}, progress, {BookmarkId})>>
  /\ BookmarkId \in bookmarks

\* the handler of "mornin-data-changed" runs in this step
MutationObserved == unpushed'.last = 0 /\ unpushed' # unpushed

\* C21: while the listener is registered, an observed mutation is followed
\* by a push within DEBOUNCE_MS of the last mutation and within MAX_WAIT_MS
\* of the first one since the push before, however close together the
\* mutations arrive; a mutation restarts the debounce timer and leaves a
\* running max-wait timer as it is.
C21_DebounceAndMaxWait ==
  /\ [](listeners > 0
          => /\ unpushed.last <= DEBOUNCE_MS
             /\ unpushed.first <= MAX_WAIT_MS
             /\ unpushed.last # NotArmed
                  => /\ debounceTimer = DEBOUNCE_MS - unpushed.last
                     /\ maxWaitTimer = MAX_WAIT_MS - unpushed.first)
  /\ [][MutationObserved
          => /\ debounceTimer' = DEBOUNCE_MS
             /\ pendingSync'
             /\ maxWaitTimer' = IF pendingSync THEN maxWaitTimer ELSE MAX_WAIT_MS]_vars

\* mutations kept arriving until the max-wait timer fired and started the
\* push, and the next mutation has armed both timers again
C21_Witness ==
  /\ pushCause = "maxWait"
  /\ uploads # << >>
  /\ listeners > 0
  /\ debounceTimer = DEBOUNCE_MS
  /\ maxWaitTimer = MAX_WAIT_MS
  /\ pendingSync

\* C29: with the listener registered, the app becoming hidden while changes
\* are pending starts a push at once, cancels both timers and clears the
\* pending flag; becoming hidden without pending changes starts no push.
C29_FlushOnHidden ==
  [][HiddenStep /\ listeners > 0
       => IF pendingSync
          THEN /\ Len(uploads') = Len(uploads) + 1
               /\ debounceTimer' = NotArmed
               /\ maxWaitTimer' = NotArmed
               /\ ~pendingSync'
          ELSE uploads' = uploads /\ ~pendingSync']_vars

\* the app was hidden while a change was pending: the push is in flight,
\* no timer is running and the flag is clear
C29_Witness ==
  /\ visibilityState = "hidden"
  /\ pushCause = "hidden"
  /\ uploads # << >>
  /\ listeners > 0
  /\ debounceTimer = NotArmed
  /\ maxWaitTimer = NotArmed
  /\ ~pendingSync

\* ClientShell, loaded in this page, has been torn down
TornDown == shell.pc # "none" /\ ~shell.mounted

\* C30: after ClientShell is torn down no handler of the sync listener is
\* registered and neither timer is running, whenever the teardown comes.
C30_NoOrphanListener ==
  TornDown => listeners = 0 /\ debounceTimer = NotArmed /\ maxWaitTimer = NotArmed

\* C23: whatever is imported through the form, the modal and the archive
\* import, no two stored books have the same source url.
C23_NoDuplicateUrl ==
  \A a \in books, b \in books : sourceUrl(a) = sourceUrl(b) => a = b

\* the requests this step sends
NewRequests == pipeline'.inFlight \ pipeline.inFlight

\* the requests for the book of the modal's pipeline that are in flight, those
\* of a cancelled run included
InFlightForBook(p) ==
  Cardinality(p.inFlight)
    + (IF p.kind = "client" /\ p.cancelledBook = p.book
       THEN Cardinality(p.cancelled) ELSE 0)

\* C28 as stated: during a download at most TTS_CONCURRENCY requests for the
\* book are in flight in the client, CHAPTER_CONCURRENCY in the endpoint.
C28_AsStated ==
  pipeline.pc = "batch" => InFlightForBook(pipeline) <= Concurrency(pipeline.kind)

\* C28: a run of a pipeline has at most its fixed number of synthesis requests in
\* flight (TTS_CONCURRENCY in the modal's pipeline, CHAPTER_CONCURRENCY in
\* the batch endpoint); the requests of a batch are sent in the step in which
\* the last request of the batch before settles, whatever the order in which
\* they settled, and they are for higher chapter indices than every request
\* sent before.
C28_BatchedConcurrency ==
  [][/\ Cardinality(pipeline'.inFlight) <= Concurrency(pipeline'.kind)
     /\ pipeline'.pc = "batch" => pipeline'.inFlight # {}
     /\ NewRequests # {}
          => /\ Cardinality(pipeline.inFlight) <= 1
             /\ pipeline'.inFlight = NewRequests
             /\ \A i \in NewRequests, j \in pipeline.started : i > j
    ]_vars

\* the modal's pipeline is in its second batch: of its three requests the
\* one for the last chapter of the batch has been answered and stored before
\* the other two
C28_Witness ==
  /\ pipeline.kind = "client"
  /\ pipeline.pc = "batch"
  /\ pipeline.toGenerate = <<0, 1, 2, 3, 4, 5>>
  /\ pipeline.batch = TTS_CONCURRENCY
  /\ pipeline.inFlight = {3, 4}
  /\ 5 \in pipeline.results
  /\ getCachedAudio(audioCache, audioCacheKey(ModalId, 5, DOWNLOAD_VOICE_ID))
       = ReadingAudio(5)

\* the characters of a title that is not a marker's label
TitleText(t) ==
  CASE t.kind = "Chapter" -> <<"C", "h", "a", "p", "t", "e", "r", " ">> \o Decimal(t.n)
    [] t.kind = "Preface" -> <<"P", "r", "e", "f", "a", "c", "e">>
    [] OTHER -> <<"F", "u", "l", "l", " ", "T", "e", "x", "t">>

\* n in decimal, with zeros in front up to the width
RECURSIVE ZeroPadded(_, _)
ZeroPadded(n, width) ==
  IF Len(Decimal(n)) >= width THEN Decimal(n)
  ELSE <<"0">> \o ZeroPadded(n, width - 1)

\* the chapters of the list that carry a marker's label
Labelled(chs) == {k \in 1..Len(chs) : chs[k].title.kind = "marker"}

\* the numbered chapters carry their place in the list, padded to the width of
\* the chapter count
C31_Numbered ==
  cpc = "done" =>
    \A k \in 1..Len(chapters) :
      chapters[k].title.kind = "Chapter"
        => TitleText(chapters[k].title)
             = <<"C", "h", "a", "p", "t", "e", "r", " ">>
                 \o ZeroPadded(k, Len(Decimal(Len(chapters))))

\* every marker section that became a chapter has its label in the result
C31_MarkersKept ==
  cpc = "done" =>
    Cardinality(Labelled(chapters)) = Cardinality(Labelled(PreChapters(InputText)))

\* C31: a chapter made from a marker keeps the marker's title, and every
\* numbered chapter at index i is titled with the number i+1, zero-padded to
\* the width of the chapter count, also after the oversize post-pass.
C31_Titles == C31_Numbered /\ C31_MarkersKept

\* the auto-advance loads whose audio this step hands to the element
AutoAdvanced == {t \in loads' \ loads : t.auto /\ t.pc = "play"}

\* C32: the audio that an auto-advance to chapter k hands to the element is
\* the audio of chapter k of the book in the selected voice, never the result
\* of a pre-generation that was started for another chapter.
C32_AutoAdvanceAudio ==
  [][\A t \in AutoAdvanced : audio'.src = Synth(t.chapter, voice')]_vars

\* every call of loadAndPlayChapter has settled and a chapter is loaded
LoadsSettled ==
  loads = {} /\ currentChapter # NoChapter /\ IsChapterAudio(audio)

\* the element holds the audio of the chapter reported as current
C33_CurrentChapterAudio ==
  LoadsSettled => audio.src = Synth(currentChapter, voice)

\* isLoading is false only when no load is in progress
C33_LoadingFlag == ~isLoading => loads = {}

\* C33: when loads overlap, the audio loaded once all have settled is that of
\* currentChapter, the chapter requested last, and isLoading is false only
\* when no chapter load is in progress.
C33_OverlappingLoads == C33_CurrentChapterAudio /\ C33_LoadingFlag

\* C34: while the engine is Idle (before the first playChapter, and from
\* close() to the next playChapter) no audio is playing and no book or chapter
\* is current, and a step that leaves it Idle writes no progress, whatever
\* load or request was in flight at close().
C34_IdleAfterClose ==
  /\ [](~isActive =>
          /\ audio.paused /\ ~isPlaying
          /\ currentBookId = NoBook /\ currentChapter = NoChapter)
  /\ [][~isActive /\ ~isActive' => progress' = progress]_vars

\* the earlier call of handleDownload passes the flag test of its loop
EarlierTestsFlag ==
  earlier.run.pc = "chapterDelay" /\ earlier'.run # earlier.run

RestoreRunning == restore.pc # "idle" \/ shell.pc = "init"

\* C36: no push starts and no handler of the sync listener is registered
\* while restoreIfNeeded is running or init() has not gone on after it, and in
\* a page whose restore succeeded (the page is reloaded) no handler is
\* registered and no push starts at all.
C36_NoPushBeforeRestore ==
  /\ [](RestoreRunning \/ shell.pc = "reload" => listeners = 0)
  /\ [][PushStarts => ~RestoreRunning /\ shell.pc = "ready"]_vars

\* the first load restored the snapshot's book and reloaded the page; the
\* second load found the sentinel, registered the listener, and a push of the
\* restored data is in flight
C36_Witness ==
  /\ pageLoads = 2
  /\ shell.pc = "ready"
  /\ listeners = 1
  /\ books = {Book.id}
  /\ uploads # << >>
  /\ Head(uploads).books = {Book.id}

\* restoreFromCloud threw in this step
RestoreThrew == restore.pc = "download" /\ restore'.pc = "threw"

\* the app is loaded in this step
PageLoads == pageLoads' # pageLoads

\* the sentinel is set in this step
SentinelSet == ~HasSentinel(localStorage) /\ HasSentinel(localStorage')

\* every snapshot replayed twice over the local stores, with the first replay
\* stopped after any number of loops, gives what one full replay gives
ReplayIdempotent ==
  \A snapshot \in Snapshots, loops \in 0..3 :
    Replay(snapshot, Replay(snapshot, LocalStores, loops), 3)
      = Replay(snapshot, LocalStores, 3)

\* C37: a restore that fails part-way leaves the sentinel unset, the sentinel
\* is set only by a call of restoreIfNeeded that returns, having replayed the
\* whole snapshot if there was one; a load of the app without the sentinel
\* downloads the snapshot again; and replaying a snapshot over stores that
\* hold all or part of it gives the stores one replay gives.
C37_SentinelAfterRestore ==
  /\ [][/\ RestoreThrew => ~HasSentinel(localStorage')
        /\ SentinelSet
             => /\ RestoreReturns
                /\ restore'.ret => LocalStores' = Replay(cloud, LocalStores, 3)
        /\ PageLoads /\ ~HasSentinel(localStorage) => restore'.pc = "download"]_vars
  /\ []ReplayIdempotent

\* a restore put the snapshot's book and failed, the sentinel is unset, and
\* the next load of the app has sent the request for the snapshot again
C37_Witness ==
  /\ pageLoads >= 2
  /\ restore.pc = "download"
  /\ ~HasSentinel(localStorage)
  /\ books = {Book.id}
  /\ cloud # NoSnapshot

\* the keys of the entries written for the chapters of book id
OwnedBy(id) == {KeyOf(w.triple) : w \in {x \in written : x.triple.bookId = id}}

\* C38: deleteBook(id) and deleteBookAudioCache(id) leave every entry that
\* was written for another book in the cache, and getBookAudioCacheSize(id)
\* returns the sum of the sizes of the entries written for book id, also for
\* two ids of which one followed by "-" is a prefix of the other.
C38_BookIsolation ==
  [][/\ op'.name \in {"deleteBook", "deleteBookAudioCache"}
          => \A e \in audioCache : e.key \notin OwnedBy(op'.id) => e \in audioCache'
     /\ op'.name = "getBookAudioCacheSize"
          => ret' = Bytes(SumSizes({e \in audioCache : e.key \in OwnedBy(op'.id)}))]_vars

\* C39: every press of a book card's play control starts a load of a chapter
\* of the book: the index it hands to playChapter is within 0..n-1, also for
\* a book whose saved progress is marked completed.
C39_CardPlaysChapter ==
  [][BookCardPlay =>
       /\ CardChapter(progress) \in 0..(NumChapters - 1)
       /\ \E t \in loads' \ loads : t.chapter = CardChapter(progress)]_vars

====
